---- MODULE Spec2Model ----
(***************************************************************************)
(* Model of github.com/pw1/stor: the path sanitizer (CleanPath), the       *)
(* in-memory backend (Memory) and the local-directory backend (LocalDir)   *)
(* over a POSIX file system, the type registry (RegisterType, New) and the *)
(* error kinds with their predicates.                                      *)
(*                                                                         *)
(* Strings are sequences of one-character strings, so that the code's     *)
(* byte-level string operations (strings.Contains, strings.HasPrefix,     *)
(* path.Clean, filepath.Dir) are computed and not assumed.                 *)
(***************************************************************************)
EXTENDS Integers, Sequences, FiniteSets, TLC

VARIABLES backend, mem, fs, last, cp, walk, watch, typeFactoryMap, bufs, insts, maps, esc, fullp, race

vars == <<backend, mem, fs, last, cp, walk, watch, typeFactoryMap, bufs, insts, maps, esc, fullp, race>>

-----------------------------------------------------------------------------
(* Bounds of the model *)

\* Longest raw string handed to CleanPath in SpecClean.
MaxLen == 4

\* Deepest path (number of segments) the backends are driven with.
MaxDepth == 3

\* Most blobs a backend holds at once (Save is not taken beyond it).
MaxFiles == 2

-----------------------------------------------------------------------------
(* Strings *)

Empty == <<>>

\* The one element of a singleton set: Pick({ F(x) : x \in {e} }) is F(e)
\* with e computed once.
Pick(S) == CHOOSE x \in S : TRUE

HasPrefix(s, prefix) ==
    /\ Len(prefix) <= Len(s)
    /\ SubSeq(s, 1, Len(prefix)) = prefix

Contains(s, sub) ==
    \E i \in 1..(Len(s) - Len(sub) + 1) : SubSeq(s, i, i + Len(sub) - 1) = sub

\* strings.Index(s, "/"): the first index (from 0) of the separator, -1 if none.
IndexSlash(s) ==
    IF \E i \in 1..Len(s) : s[i] = "/"
    THEN (CHOOSE i \in 1..Len(s) : s[i] = "/" /\ \A j \in 1..(i - 1) : s[j] # "/") - 1
    ELSE -1

\* The last index (from 1) of the separator, 0 if none.
LastSlash(s) ==
    IF \E i \in 1..Len(s) : s[i] = "/"
    THEN CHOOSE i \in 1..Len(s) : s[i] = "/" /\ \A j \in (i + 1)..Len(s) : s[j] # "/"
    ELSE 0

RECURSIVE Split(_)
Split(s) ==
    Pick({ IF i < 0 THEN <<s>>
           ELSE Pick({ <<SubSeq(s, 1, i)>> \o Split(rest) : rest \in { SubSeq(s, i + 2, Len(s)) } })
           : i \in { IndexSlash(s) } })

RECURSIVE JoinSegs(_)
JoinSegs(segs) ==
    IF segs = <<>> THEN Empty
    ELSE IF Len(segs) = 1 THEN segs[1]
    ELSE segs[1] \o <<"/">> \o JoinSegs(Tail(segs))

\* path.IsAbs
IsAbs(p) == Len(p) > 0 /\ p[1] = "/"

RECURSIVE CleanElems(_, _, _)
CleanElems(segs, out, rooted) ==
    IF segs = <<>> THEN out
    ELSE Pick({ CleanElems(Tail(segs), kept, rooted)
                : kept \in { IF Head(segs) = Empty \/ Head(segs) = <<".">> THEN out
                             ELSE IF Head(segs) # <<".", ".">> THEN Append(out, Head(segs))
                             ELSE IF out # <<>> /\ out[Len(out)] # <<".", ".">>
                             THEN SubSeq(out, 1, Len(out) - 1)
                             ELSE IF rooted THEN out
                             ELSE Append(out, Head(segs)) } })

\* path.Clean (and filepath.Clean where the separator is "/"): single
\* separators, no "." element, ".." resolved, no trailing separator, "." for
\* the empty result.
Clean(p) ==
    Pick({ IF IsAbs(p) THEN <<"/">> \o JoinSegs(elems)
           ELSE IF elems = <<>> THEN <<".">>
           ELSE JoinSegs(elems)
           : elems \in { CleanElems(segs, <<>>, IsAbs(p)) : segs \in { Split(p) } } })

-----------------------------------------------------------------------------
(* Path sanitizer *)

Delimiter == "/"

ValidBytes ==
    { ".", "_", "-",
      "a", "b", "c", "d", "e", "f", "g", "h", "i", "j", "k", "l", "m",
      "n", "o", "p", "q", "r", "s", "t", "u", "w", "v", "x", "y", "z",
      "A", "B", "C", "D", "E", "F", "G", "H", "I", "J", "K", "L", "M",
      "N", "O", "P", "Q", "R", "S", "T", "U", "W", "V", "X", "Y", "Z",
      "0", "1", "2", "3", "4", "5", "6", "7", "8", "9" }

Forbidden == { <<".", ".">> }

validCharDict == {Delimiter} \cup ValidBytes

\* The index (from 0) of the first byte that is not in validCharDict.
FirstInvalid(p) ==
    (CHOOSE i \in 1..Len(p) :
        /\ p[i] \notin validCharDict
        /\ \A j \in 1..(i - 1) : p[j] \in validCharDict) - 1

CleanPathSkipsForbidden(filePath) ==
    IF IsAbs(filePath)
    THEN [err |-> "InvalidPath", path |-> Empty, msg |-> <<"relative">>]
    ELSE IF \E i \in 1..Len(filePath) : filePath[i] \notin validCharDict
    THEN [err |-> "InvalidPath", path |-> Empty,
          msg |-> Pick({ <<"byte", filePath[i + 1], i>> : i \in { FirstInvalid(filePath) } })]
    ELSE [err |-> "ok",
          path |-> Pick({ IF c = <<".">> THEN Empty ELSE c : c \in { Clean(filePath) } }),
          msg |-> <<>>]

\* CleanPath without the replacement of path.Clean's "." by the empty string.
CleanPathKeepsDot(filePath) ==
    IF \E forbid \in Forbidden : Contains(filePath, forbid)
    THEN [err |-> "InvalidPath", path |-> Empty, msg |-> <<"forbidden">>]
    ELSE IF IsAbs(filePath)
    THEN [err |-> "InvalidPath", path |-> Empty, msg |-> <<"relative">>]
    ELSE IF \E i \in 1..Len(filePath) : filePath[i] \notin validCharDict
    THEN [err |-> "InvalidPath", path |-> Empty,
          msg |-> Pick({ <<"byte", filePath[i + 1], i>> : i \in { FirstInvalid(filePath) } })]
    ELSE [err |-> "ok", path |-> Clean(filePath), msg |-> <<>>]

\* CleanPath that removes one trailing separator instead of calling path.Clean.
CleanPathTrimsOnce(filePath) ==
    IF \E forbid \in Forbidden : Contains(filePath, forbid)
    THEN [err |-> "InvalidPath", path |-> Empty, msg |-> <<"forbidden">>]
    ELSE IF IsAbs(filePath)
    THEN [err |-> "InvalidPath", path |-> Empty, msg |-> <<"relative">>]
    ELSE IF \E i \in 1..Len(filePath) : filePath[i] \notin validCharDict
    THEN [err |-> "InvalidPath", path |-> Empty,
          msg |-> Pick({ <<"byte", filePath[i + 1], i>> : i \in { FirstInvalid(filePath) } })]
    ELSE [err |-> "ok",
          path |-> IF Len(filePath) > 0 /\ filePath[Len(filePath)] = "/"
                   THEN SubSeq(filePath, 1, Len(filePath) - 1)
                   ELSE filePath,
          msg |-> <<>>]

\* CleanPath that checks for an absolute path before the forbidden
\* combinations.
CleanPathAbsFirst(filePath) ==
    IF IsAbs(filePath)
    THEN [err |-> "InvalidPath", path |-> Empty, msg |-> <<"relative">>]
    ELSE IF \E forbid \in Forbidden : Contains(filePath, forbid)
    THEN [err |-> "InvalidPath", path |-> Empty, msg |-> <<"forbidden">>]
    ELSE IF \E i \in 1..Len(filePath) : filePath[i] \notin validCharDict
    THEN [err |-> "InvalidPath", path |-> Empty,
          msg |-> Pick({ <<"byte", filePath[i + 1], i>> : i \in { FirstInvalid(filePath) } })]
    ELSE [err |-> "ok",
          path |-> Pick({ IF c = <<".">> THEN Empty ELSE c : c \in { Clean(filePath) } }),
          msg |-> <<>>]

\* CleanPath: the canonical path, or an InvalidPathError whose Msg names the
\* first rule that failed.
CleanPath(filePath) ==
    IF \E forbid \in Forbidden : Contains(filePath, forbid)
    THEN [err |-> "InvalidPath", path |-> Empty, msg |-> <<"forbidden">>]
    ELSE IF IsAbs(filePath)
    THEN [err |-> "InvalidPath", path |-> Empty, msg |-> <<"relative">>]
    ELSE IF \E i \in 1..Len(filePath) : filePath[i] \notin validCharDict
    THEN [err |-> "InvalidPath", path |-> Empty,
          msg |-> Pick({ <<"byte", filePath[i + 1], i>> : i \in { FirstInvalid(filePath) } })]
    ELSE [err |-> "ok",
          path |-> Pick({ IF c = <<".">> THEN Empty ELSE c : c \in { Clean(filePath) } }),
          msg |-> <<>>]

\* The bytes the sanitizer is driven with: letters of both cases, a digit, the
\* three punctuation bytes, the separator and three bytes outside ValidBytes.
Alphabet == { "a", "Z", "7", ".", "_", "-", "/", "*", "\\", ":" }

RECURSIVE StringsUpTo(_)
StringsUpTo(n) ==
    IF n = 0 THEN { Empty }
    ELSE LET shorter == StringsUpTo(n - 1)
         IN  shorter \cup { Append(s, c) : s \in { t \in shorter : Len(t) = n - 1 }, c \in Alphabet }

\* Every letter and digit, the punctuation, the separator and three bytes
\* outside ValidBytes.
Bytes ==
    { "a", "b", "c", "d", "e", "f", "g", "h", "i", "j", "k", "l", "m",
      "n", "o", "p", "q", "r", "s", "t", "u", "v", "w", "x", "y", "z",
      "A", "B", "C", "D", "E", "F", "G", "H", "I", "J", "K", "L", "M",
      "N", "O", "P", "Q", "R", "S", "T", "U", "V", "W", "X", "Y", "Z",
      "0", "1", "2", "3", "4", "5", "6", "7", "8", "9",
      ".", "_", "-", "/", "*", "\\", ":" }

\* The strings the sanitizer is driven with: every string of up to MaxLen
\* bytes of Alphabet, and every byte of Bytes after a letter.
CleanInputs == StringsUpTo(MaxLen) \cup { <<"a", b>> : b \in Bytes }

-----------------------------------------------------------------------------
(* Inputs of the backends *)

RECURSIVE ChainA(_)
ChainA(k) == IF k = 1 THEN <<"a">> ELSE ChainA(k - 1) \o <<"/", "a">>

SiblingB(k) == IF k = 1 THEN <<"b">> ELSE ChainA(k - 1) \o <<"/", "b">>

\* Canonical paths: the chain a, a/a, a/a/a, ... and a sibling b at every level.
CanonPaths == { ChainA(k) : k \in 1..MaxDepth } \cup { SiblingB(k) : k \in 1..MaxDepth }

\* Accepted paths that are not in canonical form.
VariantPaths ==
    { <<".">>, <<".", "/">>, <<"a", "/">>, <<"a", "/", "/", "b">>, <<".", "/", "a">> }

\* Paths that CleanPath rejects.
InvalidPaths ==
    { <<".", ".">>, <<".", ".", "/", "a">>, <<"a", "/", ".", ".", "/", "b">>,
      <<"/", "a">>, <<"a", "*">> }

RawPaths == {Empty} \cup CanonPaths \cup VariantPaths \cup InvalidPaths

Data == { <<>>, <<1>>, <<2, 3>> }

\* The size a caller passes to Load when it wants the whole blob.
BigSize == 1000000

MaxSizes == { Len(d) : d \in Data } \cup { BigSize }

Backends == { "memory", "localdir" }

\* CleanPath on the backends' inputs.
CleanOf == [p \in RawPaths |-> CleanPath(p)]

-----------------------------------------------------------------------------
(* Host paths (package path/filepath on a POSIX host) *)

Separator == "/"

\* The working directory of the process (filepath.Abs of a relative path).
Cwd == <<"/">>

\* filepath.FromSlash
FromSlash(p) == [i \in 1..Len(p) |-> IF p[i] = "/" THEN Separator ELSE p[i]]

\* filepath.Join and path.Join of two elements: empty elements are ignored,
\* the result is cleaned.
PathJoin(a, b) ==
    IF a = Empty /\ b = Empty THEN Empty
    ELSE Pick({ Clean(joined)
                : joined \in { IF b = Empty THEN a
                               ELSE IF a = Empty THEN b
                               ELSE a \o <<Separator>> \o b } })

\* filepath.Abs
FilepathAbs(p) == IF IsAbs(p) THEN Clean(p) ELSE PathJoin(Cwd, p)

\* filepath.Dir: all but the last element, cleaned.
FilepathDir(p) == Pick({ Clean(dir) : dir \in { SubSeq(p, 1, LastSlash(p)) } })

\* os.FileInfo.Name: the last element.
BaseName(p) == SubSeq(p, LastSlash(p) + 1, Len(p))

addTrailingSeparator(path) ==
    IF Len(path) = 0 \/ path[Len(path)] # Separator
    THEN path \o <<Separator>>
    ELSE path

\* escapesDir that compares the paths without trailing separators.
escapesDirNoSeparator(path, baseDir) ==
    \E absPath \in { FilepathAbs(path) }, absBase \in { FilepathAbs(baseDir) } :
        ~HasPrefix(absPath, absBase)

\* escapesDir: TRUE when path is neither baseDir nor below it.
escapesDir(path, baseDir) ==
    \E absPath \in { FilepathAbs(path) }, absBase \in { FilepathAbs(baseDir) } :
        \E pathSlash \in { addTrailingSeparator(absPath) },
           baseDirSlash \in { addTrailingSeparator(absBase) } :
            ~HasPrefix(pathSlash, baseDirSlash)

\* LocalDir.BaseDir, as New leaves it: absolute, an existing directory.
BaseDir == <<"/", "s">>

\* The directories LocalDir objects are constructed on: BaseDir, a directory
\* below it and a directory beside it.
Bases == { BaseDir, <<"/", "s", "/", "a">>, <<"/", "t">> }

\* The LocalDir constructed on BaseDir.
Ldir == [kind |-> "LocalDir", BaseDir |-> BaseDir]

\* getFullPath that makes the path absolute without joining it to BaseDir.
getFullPathNoJoin(l, filePath) ==
    Pick({ IF c.err # "ok" THEN [err |-> c.err, path |-> Empty]
           ELSE Pick({ IF escapesDir(fullPath, l.BaseDir)
                       THEN [err |-> "InvalidPath", path |-> Empty]
                       ELSE [err |-> "ok", path |-> fullPath]
                       : fullPath \in { FilepathAbs(FromSlash(c.path)) } })
           : c \in { CleanPath(filePath) } })

\* getFullPath: the absolute path of a slash-separated path, which must not
\* escape BaseDir.
getFullPath(l, filePath) ==
    Pick({ IF c.err # "ok" THEN [err |-> c.err, path |-> Empty]
           ELSE Pick({ IF escapesDir(fullPath, l.BaseDir)
                       THEN [err |-> "InvalidPath", path |-> Empty]
                       ELSE [err |-> "ok", path |-> fullPath]
                       : fullPath \in { FilepathAbs(joined)
                                        : joined \in { PathJoin(l.BaseDir, native)
                                                       : native \in { FromSlash(c.path) } } } })
           : c \in { CleanPath(filePath) } })

\* getFullPath on the backends' inputs.
FullPathOf ==
    [b \in Bases |-> [p \in RawPaths |-> Pick({ getFullPath(l, p) : l \in { [BaseDir |-> b] } })]]

RECURSIVE Ancestors(_)
Ancestors(q) ==
    Pick({ IF dir = q THEN {} ELSE {dir} \cup Ancestors(dir) : dir \in { FilepathDir(q) } })

\* Every absolute path the backend can name, with the directories above it.
FsPaths ==
    UNION { {full.path} \cup Ancestors(full.path)
            : full \in { r \in { FullPathOf[b][p] : b \in Bases, p \in RawPaths } : r.err = "ok" } }

\* filepath.Dir, the directories above a path and escapesDir(_, BaseDir) on
\* these paths.
DirOf == [q \in FsPaths |-> FilepathDir(q)]
AncestorsOf == [q \in FsPaths |-> Ancestors(q)]
EscapesBase == [b \in Bases |-> [q \in FsPaths |-> escapesDir(q, b)]]

-----------------------------------------------------------------------------
(* The file system: fs.dirs is the set of directories, fs.files maps each   *)
(* regular file to its content; both are keyed by absolute path.            *)

\* What stat reports as the size of a directory.
DirSize == 4096

NoFiles == [q \in {} |-> Empty]

\* The file system a LocalDir is constructed on: BaseDir exists and is empty.
InitFs == [dirs |-> { <<"/">>, BaseDir }, files |-> NoFiles]

IsFile(f, q) == q \in DOMAIN f.files
IsDir(f, q) == q \in f.dirs

Children(f, q) ==
    { c \in f.dirs \cup DOMAIN f.files : c # q /\ DirOf[c] = q }

\* os.Stat
OsStat(f, q) ==
    IF \E a \in AncestorsOf[q] : IsFile(f, a)
    THEN [err |-> "ENOTDIR", isDir |-> FALSE, size |-> 0]
    ELSE IF IsFile(f, q) THEN [err |-> "ok", isDir |-> FALSE, size |-> Len(f.files[q])]
    ELSE IF IsDir(f, q) THEN [err |-> "ok", isDir |-> TRUE, size |-> DirSize]
    ELSE [err |-> "ENOENT", isDir |-> FALSE, size |-> 0]

\* os.IsNotExist
IsNotExist(err) == err = "ENOENT"

\* os.Remove that removes a directory together with what it holds.
OsRemoveTree(f, q) ==
    Pick({ IF st.err # "ok" THEN [fs |-> f, err |-> st.err]
           ELSE [fs |-> [dirs  |-> { x \in f.dirs : x # q /\ q \notin AncestorsOf[x] },
                         files |-> [k \in { x \in DOMAIN f.files : x # q /\ q \notin AncestorsOf[x] }
                                    |-> f.files[k]]],
                 err |-> "ok"]
           : st \in { OsStat(f, q) } })

\* os.Remove: unlinks a file, removes an empty directory.
OsRemove(f, q) ==
    Pick({ IF st.err # "ok" THEN [fs |-> f, err |-> st.err]
           ELSE IF ~st.isDir
           THEN [fs |-> [f EXCEPT !.files = [k \in DOMAIN f.files \ {q} |-> f.files[k]]],
                 err |-> "ok"]
           ELSE IF Children(f, q) # {} THEN [fs |-> f, err |-> "ENOTEMPTY"]
           ELSE [fs |-> [f EXCEPT !.dirs = f.dirs \ {q}], err |-> "ok"]
           : st \in { OsStat(f, q) } })

\* os.Mkdir
OsMkdir(f, q) ==
    Pick({ IF st.err = "ok" THEN [fs |-> f, err |-> "EEXIST"]
           ELSE IF st.err = "ENOTDIR" THEN [fs |-> f, err |-> "ENOTDIR"]
           ELSE IF ~IsDir(f, DirOf[q]) THEN [fs |-> f, err |-> "ENOENT"]
           ELSE [fs |-> [f EXCEPT !.dirs = f.dirs \cup {q}], err |-> "ok"]
           : st \in { OsStat(f, q) } })

\* os.MkdirAll: nothing to do for a directory, an error for a file, otherwise
\* the parent first and then the directory itself.
RECURSIVE OsMkdirAll(_, _)
OsMkdirAll(f, q) ==
    Pick({ IF st.err = "ok"
           THEN IF st.isDir THEN [fs |-> f, err |-> "ok"] ELSE [fs |-> f, err |-> "ENOTDIR"]
           ELSE Pick({ IF up.err # "ok" THEN [fs |-> f, err |-> up.err]
                       ELSE OsMkdir(up.fs, q)
                       : up \in { IF LastSlash(q) > 1
                                  THEN OsMkdirAll(f, SubSeq(q, 1, LastSlash(q) - 1))
                                  ELSE [fs |-> f, err |-> "ok"] } })
           : st \in { OsStat(f, q) } })

\* A write that does not truncate: the bytes of the old content beyond data stay.
OsWriteFileNoTruncate(f, q, data) ==
    Pick({ IF st.err = "ENOTDIR" THEN [fs |-> f, err |-> "ENOTDIR"]
           ELSE IF st.err = "ok" /\ st.isDir THEN [fs |-> f, err |-> "EISDIR"]
           ELSE IF st.err = "ENOENT" /\ ~IsDir(f, DirOf[q]) THEN [fs |-> f, err |-> "ENOENT"]
           ELSE [fs |-> [f EXCEPT !.files =
                            [k \in DOMAIN f.files \cup {q} |->
                                IF k # q THEN f.files[k]
                                ELSE IF st.err = "ok" /\ Len(f.files[q]) > Len(data)
                                THEN data \o SubSeq(f.files[q], Len(data) + 1, Len(f.files[q]))
                                ELSE data]],
                 err |-> "ok"]
           : st \in { OsStat(f, q) } })

\* ioutil.WriteFile: creates or truncates the file and writes data.
OsWriteFile(f, q, data) ==
    Pick({ IF st.err = "ENOTDIR" THEN [fs |-> f, err |-> "ENOTDIR"]
           ELSE IF st.err = "ok" /\ st.isDir THEN [fs |-> f, err |-> "EISDIR"]
           ELSE IF st.err = "ENOENT" /\ ~IsDir(f, DirOf[q]) THEN [fs |-> f, err |-> "ENOENT"]
           ELSE [fs |-> [f EXCEPT !.files =
                            [k \in DOMAIN f.files \cup {q} |-> IF k = q THEN data ELSE f.files[k]]],
                 err |-> "ok"]
           : st \in { OsStat(f, q) } })

\* ioutil.ReadDir: the entries of a directory, each with its name and kind.
OsReadDir(f, q) ==
    Pick({ IF st.err # "ok" THEN [err |-> st.err, entries |-> {}]
           ELSE IF ~st.isDir THEN [err |-> "ENOTDIR", entries |-> {}]
           ELSE [err |-> "ok",
                 entries |-> { [name |-> BaseName(c), isDir |-> IsDir(f, c)] : c \in Children(f, q) }]
           : st \in { OsStat(f, q) } })

\* ioutil.ReadFile
OsReadFile(f, q) ==
    Pick({ IF st.err # "ok" THEN [err |-> st.err, data |-> Empty]
           ELSE IF st.isDir THEN [err |-> "EISDIR", data |-> Empty]
           ELSE [err |-> "ok", data |-> f.files[q]]
           : st \in { OsStat(f, q) } })

-----------------------------------------------------------------------------
(* Results *)

\* A nil *stor.Meta.
Nil == "nil"

\* An error value: kind is its dynamic type (the error types of package stor,
\* "errorString" for what errors.New and fmt.Errorf make, Nil for the nil
\* error), arg the path, type or text it carries.
NilError == [kind |-> Nil, arg |-> Empty, msg |-> Empty]

\* The Error methods: the message as its format and the value put into it.
ErrorText(e) ==
    IF e.kind = "InvalidPath"
    THEN [fmt |-> IF e.msg = Empty THEN "path %s is invalid" ELSE "path %s is invalid: relative",
          arg |-> e.arg]
    ELSE IF e.kind = "PathDoesntExist" THEN [fmt |-> "path %s does not exist", arg |-> e.arg]
    ELSE IF e.kind = "TooLarge"
    THEN [fmt |-> IF e.arg = Empty THEN "too large" ELSE "%s is too large", arg |-> e.arg]
    ELSE IF e.kind = "UnspecifiedType" THEN [fmt |-> "storage Type is not specified", arg |-> Empty]
    ELSE IF e.kind = "UnregisteredType"
    THEN [fmt |-> "storage type %s is not registered", arg |-> e.arg]
    ELSE e.arg

\* IsTooLargeError that reads the message.
IsTooLargeErrorByText(err) ==
    err.kind # Nil /\ ErrorText(err).fmt \in { "too large", "%s is too large" }

IsInvalidPathError(err) == err.kind = "InvalidPath"

IsPathDoesntExistError(err) == err.kind = "PathDoesntExist"

IsTooLargeError(err) == err.kind = "TooLarge"

IsUnspecifiedTypeError(err) == err.kind = "UnspecifiedType"

IsUnregisteredTypeError(err) == err.kind = "UnregisteredType"

-----------------------------------------------------------------------------
(* The in-memory backend: m maps each canonical path to its bytes. *)

MemMetaPathLen(m, filePath) ==
    LET c == CleanOf[filePath]
    IN  IF c.err # "ok" THEN [err |-> c.err, meta |-> Nil]
        ELSE IF c.path \notin DOMAIN m THEN [err |-> "PathDoesntExist", meta |-> Nil]
        ELSE [err |-> "ok", meta |-> [Size |-> Len(c.path)]]

MemMeta(m, filePath) ==
    LET c == CleanOf[filePath]
    IN  IF c.err # "ok" THEN [err |-> c.err, meta |-> Nil]
        ELSE IF c.path \notin DOMAIN m THEN [err |-> "PathDoesntExist", meta |-> Nil]
        ELSE [err |-> "ok", meta |-> [Size |-> Len(m[c.path])]]

MemList(m, filePath) ==
    LET c      == CleanOf[filePath]
        prefix == IF c.path = Empty THEN c.path ELSE c.path \o <<"/">>
        under  == { key \in DOMAIN m : HasPrefix(key, prefix) }
        rest(key) == SubSeq(key, Len(prefix) + 1, Len(key))
    IN  IF c.err # "ok" THEN [err |-> c.err, files |-> {}, dirs |-> {}]
        ELSE [err   |-> "ok",
              files |-> { prefix \o rest(key) : key \in { k \in under : IndexSlash(rest(k)) < 0 } },
              dirs  |-> { prefix \o SubSeq(rest(key), 1, IndexSlash(rest(key))) :
                            key \in { k \in under : IndexSlash(rest(k)) >= 0 } }]

MemExist(m, filePath) ==
    LET c == CleanOf[filePath]
    IN  IF c.err # "ok" THEN [err |-> c.err, exists |-> FALSE]
        ELSE [err |-> "ok", exists |-> c.path \in DOMAIN m]

MemLoadRejectsEqual(m, filePath, maxSize) ==
    LET c == CleanOf[filePath]
    IN  IF c.err # "ok" THEN [err |-> c.err, data |-> Empty]
        ELSE IF c.path \notin DOMAIN m THEN [err |-> "PathDoesntExist", data |-> Empty]
        ELSE IF Len(m[c.path]) >= maxSize THEN [err |-> "TooLarge", data |-> Empty]
        ELSE [err |-> "ok", data |-> m[c.path]]

MemLoad(m, filePath, maxSize) ==
    LET c == CleanOf[filePath]
    IN  IF c.err # "ok" THEN [err |-> c.err, data |-> Empty]
        ELSE IF c.path \notin DOMAIN m THEN [err |-> "PathDoesntExist", data |-> Empty]
        ELSE IF Len(m[c.path]) > maxSize THEN [err |-> "TooLarge", data |-> Empty]
        ELSE [err |-> "ok", data |-> m[c.path]]

MemSaveRawKey(m, filePath, data) ==
    [mem |-> [k \in DOMAIN m \cup {filePath} |-> IF k = filePath THEN data ELSE m[k]],
     err |-> "ok"]

MemSave(m, filePath, data) ==
    LET c == CleanOf[filePath]
    IN  IF c.err # "ok" THEN [mem |-> m, err |-> c.err]
        ELSE [mem |-> [k \in DOMAIN m \cup {c.path} |-> IF k = c.path THEN data ELSE m[k]],
              err |-> "ok"]

\* Memory.Delete that also deletes every key below the path.
MemDeleteByPrefix(m, filePath) ==
    LET c == CleanOf[filePath]
    IN  IF c.err # "ok" THEN [mem |-> m, err |-> c.err]
        ELSE IF c.path \notin DOMAIN m THEN [mem |-> m, err |-> "PathDoesntExist"]
        ELSE [mem |-> [k \in { x \in DOMAIN m : ~HasPrefix(x, c.path) } |-> m[k]], err |-> "ok"]

MemDelete(m, filePath) ==
    LET c == CleanOf[filePath]
    IN  IF c.err # "ok" THEN [mem |-> m, err |-> c.err]
        ELSE IF c.path \notin DOMAIN m THEN [mem |-> m, err |-> "PathDoesntExist"]
        ELSE [mem |-> [k \in DOMAIN m \ {c.path} |-> m[k]], err |-> "ok"]

-----------------------------------------------------------------------------
(* The local-directory backend over the file system f. *)

\* The cap on the iterations of Delete's upward walk.
WalkCap == 1000

\* Every operation also reports calls: the paths it hands to the os and
\* ioutil functions.
LdMeta(l, f, filePath) ==
    Pick({ IF full.err # "ok" THEN [err |-> full.err, meta |-> Nil, calls |-> {}]
           ELSE Pick({ IF info.err # "ok"
                       THEN [err   |-> IF IsNotExist(info.err) THEN "PathDoesntExist" ELSE info.err,
                             meta  |-> Nil,
                             calls |-> {full.path}]
                       ELSE [err |-> "ok", meta |-> [Size |-> info.size], calls |-> {full.path}]
                       : info \in { OsStat(f, full.path) } })
           : full \in { FullPathOf[l.BaseDir][filePath] } })

\* List that puts the caller's path in front of each entry name without
\* path.Join's cleaning.
LdListRawJoin(l, f, filePath) ==
    Pick({ IF full.err # "ok" THEN [err |-> full.err, files |-> {}, dirs |-> {}, calls |-> {}]
           ELSE Pick({ IF rd.err # "ok"
                       THEN [err |-> rd.err, files |-> {}, dirs |-> {}, calls |-> {full.path}]
                       ELSE [err   |-> "ok",
                             files |-> { filePath \o <<"/">> \o e.name
                                         : e \in { x \in rd.entries : ~x.isDir } },
                             dirs  |-> { filePath \o <<"/">> \o e.name
                                         : e \in { x \in rd.entries : x.isDir } },
                             calls |-> {full.path}]
                       : rd \in { OsReadDir(f, full.path) } })
           : full \in { FullPathOf[l.BaseDir][filePath] } })

\* List: the entries are reported under the path as the caller wrote it.
LdList(l, f, filePath) ==
    Pick({ IF full.err # "ok" THEN [err |-> full.err, files |-> {}, dirs |-> {}, calls |-> {}]
           ELSE Pick({ IF rd.err # "ok"
                       THEN [err |-> rd.err, files |-> {}, dirs |-> {}, calls |-> {full.path}]
                       ELSE [err   |-> "ok",
                             files |-> { PathJoin(filePath, e.name)
                                         : e \in { x \in rd.entries : ~x.isDir } },
                             dirs  |-> { PathJoin(filePath, e.name)
                                         : e \in { x \in rd.entries : x.isDir } },
                             calls |-> {full.path}]
                       : rd \in { OsReadDir(f, full.path) } })
           : full \in { FullPathOf[l.BaseDir][filePath] } })

LdExist(l, f, filePath) ==
    Pick({ IF full.err # "ok" THEN [err |-> full.err, exists |-> FALSE, calls |-> {}]
           ELSE Pick({ IF info.err # "ok"
                       THEN [err    |-> IF IsNotExist(info.err) THEN "ok" ELSE info.err,
                             exists |-> FALSE,
                             calls  |-> {full.path}]
                       ELSE [err |-> "ok", exists |-> TRUE, calls |-> {full.path}]
                       : info \in { OsStat(f, full.path) } })
           : full \in { FullPathOf[l.BaseDir][filePath] } })

LdLoad(l, f, filePath, maxSize) ==
    Pick({ IF full.err # "ok" THEN [err |-> full.err, data |-> Empty, calls |-> {}]
           ELSE Pick({ IF info.err # "ok"
                       THEN [err   |-> IF IsNotExist(info.err) THEN "PathDoesntExist" ELSE info.err,
                             data  |-> Empty,
                             calls |-> {full.path}]
                       ELSE IF info.size > maxSize
                       THEN [err |-> "TooLarge", data |-> Empty, calls |-> {full.path}]
                       ELSE Pick({ [err |-> rf.err, data |-> rf.data, calls |-> {full.path}]
                                   : rf \in { OsReadFile(f, full.path) } })
                       : info \in { OsStat(f, full.path) } })
           : full \in { FullPathOf[l.BaseDir][filePath] } })

LdSaveNoMkdirAll(l, f, filePath, data) ==
    Pick({ IF full.err # "ok" THEN [fs |-> f, err |-> full.err, calls |-> {}]
           ELSE Pick({ [fs |-> wr.fs, err |-> wr.err, calls |-> {full.path}]
                       : wr \in { OsWriteFile(f, full.path, data) } })
           : full \in { FullPathOf[l.BaseDir][filePath] } })

\* Save: the parent directories (the error of MkdirAll is dropped), then the
\* file.
LdSave(l, f, filePath, data) ==
    Pick({ IF full.err # "ok" THEN [fs |-> f, err |-> full.err, calls |-> {}]
           ELSE Pick({ [fs |-> wr.fs, err |-> wr.err, calls |-> {DirOf[full.path], full.path}]
                       : wr \in { OsWriteFile(made.fs, full.path, data)
                                  : made \in { OsMkdirAll(f, DirOf[full.path]) } } })
           : full \in { FullPathOf[l.BaseDir][filePath] } })

\* The upward walk of Delete: every empty directory between the removed file
\* and BaseDir is removed (the error of os.Remove is dropped).
RECURSIVE PruneWalk(_, _, _, _)
PruneWalk(l, f, from, i) ==
    IF i > WalkCap THEN [fs |-> f, err |-> "InfiniteLoop", steps |-> i, calls |-> {}]
    ELSE Pick({ IF EscapesBase[l.BaseDir][parentDir] \/ parentDir = l.BaseDir
                THEN [fs |-> f, err |-> "ok", steps |-> i, calls |-> {}]
                ELSE Pick({ IF rd.err # "ok"
                            THEN [fs |-> f, err |-> rd.err, steps |-> i, calls |-> {parentDir}]
                            ELSE IF rd.entries # {}
                            THEN [fs |-> f, err |-> "ok", steps |-> i, calls |-> {parentDir}]
                            ELSE Pick({ [up EXCEPT !.calls = @ \cup {parentDir}]
                                        : up \in { PruneWalk(l, removed.fs, parentDir, i + 1)
                                                   : removed \in { OsRemove(f, parentDir) } } })
                            : rd \in { OsReadDir(f, parentDir) } })
                : parentDir \in { DirOf[from] } })

LdDelete(l, f, filePath) ==
    Pick({ IF full.err # "ok" THEN [fs |-> f, err |-> full.err, steps |-> 0, calls |-> {}]
           ELSE Pick({ IF rm.err # "ok"
                       THEN [fs    |-> f,
                             err   |-> IF IsNotExist(rm.err) THEN "PathDoesntExist" ELSE rm.err,
                             steps |-> 0,
                             calls |-> {full.path}]
                       ELSE Pick({ [up EXCEPT !.calls = @ \cup {full.path}]
                                   : up \in { PruneWalk(l, rm.fs, full.path, 0) } })
                       : rm \in { OsRemove(f, full.path) } })
           : full \in { FullPathOf[l.BaseDir][filePath] } })

-----------------------------------------------------------------------------
(* Operations of the backend in use *)

MetaOf(b, m, f, p) == IF b = "memory" THEN MemMeta(m, p) ELSE LdMeta(Ldir, f, p)
ListOf(b, m, f, p) == IF b = "memory" THEN MemList(m, p) ELSE LdList(Ldir, f, p)
ExistOf(b, m, f, p) == IF b = "memory" THEN MemExist(m, p) ELSE LdExist(Ldir, f, p)
LoadOf(b, m, f, p, n) == IF b = "memory" THEN MemLoad(m, p, n) ELSE LdLoad(Ldir, f, p, n)

\* Save and Delete: the stores after the call, the error and the paths handed
\* to the file system.
SaveOf(b, m, f, p, d) ==
    IF b = "memory"
    THEN Pick({ [mem |-> r.mem, fs |-> f, err |-> r.err, calls |-> {}]
                : r \in { MemSave(m, p, d) } })
    ELSE Pick({ [mem |-> m, fs |-> r.fs, err |-> r.err, calls |-> r.calls]
                : r \in { LdSave(Ldir, f, p, d) } })

DeleteOf(b, m, f, p) ==
    IF b = "memory"
    THEN Pick({ [mem |-> r.mem, fs |-> f, err |-> r.err, steps |-> 0, calls |-> {}]
                : r \in { MemDelete(m, p) } })
    ELSE Pick({ [mem |-> m, fs |-> r.fs, err |-> r.err, steps |-> r.steps, calls |-> r.calls]
                : r \in { LdDelete(Ldir, f, p) } })

Stored(m, f) == Cardinality(DOMAIN m) + Cardinality(DOMAIN f.files)

-----------------------------------------------------------------------------
(* The state machine: one caller drives one backend. *)

\* stor.Type values and the registrations made by the init functions of the
\* backend packages.
MaxTypeLen == 20

TypeUnspecified == Empty

MemoryStorageType == <<"M", "e", "m", "o", "r", "y">>

LocalDirStorageType == <<"L", "o", "c", "a", "l", "D", "i", "r">>

NoTypes == [t \in {} |-> Nil]

\* The nil Storage.
NoStorage == [kind |-> Nil]

Registered ==
    [t \in { MemoryStorageType, LocalDirStorageType } |->
        IF t = MemoryStorageType THEN "memory.New" ELSE "localdir.New"]

NoBufs == [cells |-> <<>>, held |-> {}, used |-> {}, data |-> NoFiles]
NoInsts == <<>>
NoMaps == <<>>

NoCall == [op |-> "none", err |-> "ok", steps |-> 0]
NoClean == [in |-> Empty, done |-> FALSE, out |-> [err |-> "ok", path |-> Empty, msg |-> <<>>]]
NoWalk == [pc |-> "idle"]
NoWatch == [path |-> Empty, gone |-> FALSE]
NoEsc == [path |-> Empty, baseDir |-> Empty, done |-> FALSE, escapes |-> FALSE]
NoFull == [baseDir |-> Empty, filePath |-> Empty, done |-> FALSE, out |-> [err |-> "ok", path |-> Empty]]

\* The goroutines that share one LocalDir, and a goroutine that has not
\* called it yet.
Callers == { 1, 2 }

NoCaller ==
    [op |-> "none", pc |-> "idle", path |-> Empty, data |-> Empty, maxSize |-> 0,
     parentDir |-> Empty, i |-> 0, err |-> "ok", out |-> Empty,
     raced |-> FALSE, pruned |-> FALSE, filled |-> Empty, kept |-> FALSE]

NoRace == [c \in Callers |-> NoCaller]

Init ==
    /\ backend \in Backends
    /\ mem = NoFiles
    /\ fs = InitFs
    /\ last = NoCall
    /\ cp = NoClean
    /\ walk = NoWalk
    /\ watch = NoWatch
    /\ typeFactoryMap = Registered
    /\ bufs = NoBufs
    /\ insts = NoInsts
    /\ maps = NoMaps
    /\ esc = NoEsc
    /\ fullp = NoFull
    /\ race = NoRace

Meta(p) ==
    /\ last' = [op |-> "meta", err |-> MetaOf(backend, mem, fs, p).err, steps |-> 0]
    /\ UNCHANGED <<backend, mem, fs, cp, walk, watch, typeFactoryMap, bufs, insts, maps, esc, fullp, race>>

List(p) ==
    /\ last' = [op |-> "list", err |-> ListOf(backend, mem, fs, p).err, steps |-> 0]
    /\ UNCHANGED <<backend, mem, fs, cp, walk, watch, typeFactoryMap, bufs, insts, maps, esc, fullp, race>>

Exist(p) ==
    /\ last' = [op |-> "exist", err |-> ExistOf(backend, mem, fs, p).err, steps |-> 0]
    /\ UNCHANGED <<backend, mem, fs, cp, walk, watch, typeFactoryMap, bufs, insts, maps, esc, fullp, race>>

\* Load that removes the blob it has returned.
LoadConsumes(p, n) ==
    \E r \in { LoadOf(backend, mem, fs, p, n) } :
        \E removed \in { IF r.err = "ok" THEN DeleteOf(backend, mem, fs, p)
                         ELSE [mem |-> mem, fs |-> fs] } :
            /\ last' = [op |-> "load", err |-> r.err, steps |-> 0]
            /\ mem' = removed.mem
            /\ fs' = removed.fs
            /\ UNCHANGED <<backend, cp, walk, watch, typeFactoryMap, bufs, insts, maps, esc, fullp, race>>

Load(p, n) ==
    /\ last' = [op |-> "load", err |-> LoadOf(backend, mem, fs, p, n).err, steps |-> 0]
    /\ UNCHANGED <<backend, mem, fs, cp, walk, watch, typeFactoryMap, bufs, insts, maps, esc, fullp, race>>

\* Save and Delete without the observer of SpecWatch.
SaveCall(p, d) ==
    \E r \in { SaveOf(backend, mem, fs, p, d) } :
        /\ Stored(r.mem, r.fs) <= MaxFiles
        /\ mem' = r.mem
        /\ fs' = r.fs
        /\ last' = [op |-> "save", err |-> r.err, steps |-> 0]
        /\ UNCHANGED <<backend, cp, walk, typeFactoryMap, bufs, insts, maps, esc, fullp, race>>

DeleteCall(p) ==
    \E r \in { DeleteOf(backend, mem, fs, p) } :
        /\ mem' = r.mem
        /\ fs' = r.fs
        /\ last' = [op |-> "delete", err |-> r.err, steps |-> r.steps]
        /\ UNCHANGED <<backend, cp, walk, typeFactoryMap, bufs, insts, maps, esc, fullp, race>>

Save(p, d) == SaveCall(p, d) /\ UNCHANGED watch

Delete(p) == DeleteCall(p) /\ UNCHANGED watch

Next ==
    \/ \E p \in RawPaths : Meta(p)
    \/ \E p \in RawPaths : List(p)
    \/ \E p \in RawPaths : Exist(p)
    \/ \E p \in RawPaths, n \in MaxSizes : Load(p, n)
    \/ \E p \in RawPaths, d \in Data : Save(p, d)
    \/ \E p \in RawPaths : Delete(p)

Spec == Init /\ [][Next]_vars

-----------------------------------------------------------------------------
(* The sanitizer alone: one raw string in, CleanPath applied to it. *)

InitClean ==
    /\ backend = "memory"
    /\ mem = NoFiles
    /\ fs = InitFs
    /\ last = NoCall
    /\ cp \in { [in |-> p, done |-> FALSE, out |-> NoClean.out] : p \in CleanInputs }
    /\ walk = NoWalk
    /\ watch = NoWatch
    /\ typeFactoryMap = Registered
    /\ bufs = NoBufs
    /\ insts = NoInsts
    /\ maps = NoMaps
    /\ esc = NoEsc
    /\ fullp = NoFull
    /\ race = NoRace

CleanStep ==
    /\ ~cp.done
    /\ cp' = [cp EXCEPT !.done = TRUE, !.out = CleanPath(cp.in)]
    /\ UNCHANGED <<backend, mem, fs, last, walk, watch, typeFactoryMap, bufs, insts, maps, esc, fullp, race>>

NextClean == CleanStep

SpecClean == InitClean /\ [][NextClean]_vars

-----------------------------------------------------------------------------
(* LocalDir.Delete on a deep chain, one loop iteration at a time. The store *)
(* holds one file, a/a/.../a with walk.depth segments: the directory at     *)
(* level k is BaseDir followed by k segments (level 0 is BaseDir), the      *)
(* directories of levels 1..walk.dirs exist, each holding only the next     *)
(* one, and the file lies in the directory of level walk.depth - 1.         *)

\* How far beyond WalkCap the chains go.
MaxOver == 3

ChainDepths == (1..MaxDepth) \cup ((WalkCap - 1)..(WalkCap + MaxOver))

\* ioutil.ReadDir on the directory of level k of the chain.
ChainReadDir(w, k) ==
    IF k > w.dirs THEN [err |-> "ENOENT", entries |-> 0]
    ELSE [err |-> "ok",
          entries |-> IF w.dirs > k \/ (w.file /\ k = w.depth - 1) THEN 1 ELSE 0]

InitWalk ==
    /\ backend = "localdir"
    /\ mem = NoFiles
    /\ fs = InitFs
    /\ last = NoCall
    /\ cp = NoClean
    /\ watch = NoWatch
    /\ typeFactoryMap = Registered
    /\ bufs = NoBufs
    /\ insts = NoInsts
    /\ maps = NoMaps
    /\ esc = NoEsc
    /\ fullp = NoFull
    /\ race = NoRace
    /\ walk \in { [pc |-> "remove", depth |-> n, file |-> TRUE, dirs |-> n - 1,
                   parentDir |-> n, i |-> 0, err |-> "ok"] : n \in ChainDepths }

\* os.Remove(fullPath), and parentDir := fullPath.
WalkRemove ==
    /\ walk.pc = "remove"
    /\ walk' = IF walk.file
               THEN [walk EXCEPT !.file = FALSE, !.pc = "loop", !.parentDir = walk.depth, !.i = 0]
               ELSE [walk EXCEPT !.pc = "done", !.err = "PathDoesntExist"]
    /\ UNCHANGED <<backend, mem, fs, last, cp, watch, typeFactoryMap, bufs, insts, maps, esc, fullp, race>>

\* One iteration of the loop over the parent directories.
WalkIterate ==
    /\ walk.pc = "loop"
    /\ walk' =
        IF walk.i > WalkCap THEN [walk EXCEPT !.pc = "done", !.err = "InfiniteLoop"]
        ELSE Pick({ IF up <= 0
                    THEN [walk EXCEPT !.pc = "done", !.parentDir = up]
                    ELSE Pick({ IF rd.err # "ok"
                                THEN [walk EXCEPT !.pc = "done", !.parentDir = up, !.err = rd.err]
                                ELSE IF rd.entries > 0
                                THEN [walk EXCEPT !.pc = "done", !.parentDir = up]
                                ELSE [walk EXCEPT !.parentDir = up, !.dirs = up - 1,
                                                  !.i = walk.i + 1]
                                : rd \in { ChainReadDir(walk, up) } })
                    : up \in { walk.parentDir - 1 } })
    /\ UNCHANGED <<backend, mem, fs, last, cp, watch, typeFactoryMap, bufs, insts, maps, esc, fullp, race>>

NextWalk == WalkRemove \/ WalkIterate

SpecWalk == InitWalk /\ [][NextWalk]_vars

-----------------------------------------------------------------------------
(* Save and Delete under observation: watch.path is one canonical path, and *)
(* watch.gone holds from a successful Delete of it until the next Save of   *)
(* it. The reading operations change nothing stored and are left out.       *)

\* The canonical paths: the root and the paths CleanPath returns unchanged.
CanonInputs == {Empty} \cup CanonPaths

\* TRUE when the raw path p names the watched path.
Names(p, w) == CleanOf[p].err = "ok" /\ CleanOf[p].path = w

InitWatch ==
    /\ backend \in Backends
    /\ mem = NoFiles
    /\ fs = InitFs
    /\ last = NoCall
    /\ cp = NoClean
    /\ walk = NoWalk
    /\ watch \in { [path |-> w, gone |-> FALSE] : w \in CanonInputs }
    /\ typeFactoryMap = Registered
    /\ bufs = NoBufs
    /\ insts = NoInsts
    /\ maps = NoMaps
    /\ esc = NoEsc
    /\ fullp = NoFull
    /\ race = NoRace

WatchedSave(p, d) ==
    /\ SaveCall(p, d)
    /\ watch' = IF Names(p, watch.path) THEN [watch EXCEPT !.gone = FALSE] ELSE watch

WatchedDelete(p) ==
    /\ DeleteCall(p)
    /\ watch' = IF Names(p, watch.path) /\ last'.err = "ok"
                THEN [watch EXCEPT !.gone = TRUE]
                ELSE watch

NextWatch ==
    \/ \E p \in RawPaths, d \in Data : WatchedSave(p, d)
    \/ \E p \in RawPaths : WatchedDelete(p)

SpecWatch == InitWatch /\ [][NextWatch]_vars

-----------------------------------------------------------------------------
(* Vocabulary of the claims *)

\* A blob is stored at the canonical path p.
StoredAt(p) ==
    IF backend = "memory" THEN p \in DOMAIN mem ELSE IsFile(fs, FullPathOf[BaseDir][p].path)

\* The bytes stored at p.
StoredData(p) == IF backend = "memory" THEN mem[p] ELSE fs.files[FullPathOf[BaseDir][p].path]

\* The directory of the canonical path p ("" for a path of one segment).
ParentOf(p) == IF LastSlash(p) = 0 THEN Empty ELSE SubSeq(p, 1, LastSlash(p) - 1)

\* The raw paths that CleanPath rejects.
Rejected == { p \in RawPaths : CleanPath(p).err # "ok" }

-----------------------------------------------------------------------------
(* C1 *)

\* C1 (as claimed): on either backend, in every reachable state, for every
\* canonical path p (the root "" included) and every content d, save(p, d)
\* succeeds and load(p, n) right after it returns exactly d whenever
\* n >= len(d).
C1_RoundTrip ==
    \A p \in CanonInputs, d \in Data :
        \A saved \in { SaveOf(backend, mem, fs, p, d) } :
            /\ saved.err = "ok"
            /\ \A n \in { k \in MaxSizes : k >= Len(d) } :
                   \A loaded \in { LoadOf(backend, saved.mem, saved.fs, p, n) } :
                       loaded.err = "ok" /\ loaded.data = d

\* The file system can hold a file at the canonical path p: its resolved
\* path is no directory and no directory above it is a regular file.
Savable(p) ==
    \/ backend = "memory"
    \/ \A full \in { FullPathOf[BaseDir][p].path } :
           /\ ~IsDir(fs, full)
           /\ \A above \in AncestorsOf[full] : ~IsFile(fs, above)

\* C1 (amended): save(p, d) succeeds exactly when the backend is the in-memory
\* one or the resolved path of p is no directory and lies under no regular
\* file; whenever it succeeds, load(p, n) right after it returns exactly d for
\* every n >= len(d).
C1_RoundTripWhereSavable ==
    \A p \in CanonInputs, d \in Data :
        \A saved \in { SaveOf(backend, mem, fs, p, d) } :
            /\ saved.err = "ok" <=> Savable(p)
            /\ saved.err = "ok" =>
                   \A n \in { k \in MaxSizes : k >= Len(d) } :
                       \A loaded \in { LoadOf(backend, saved.mem, saved.fs, p, n) } :
                           loaded.err = "ok" /\ loaded.data = d

\* A save into the deepest directory chain has succeeded on the local
\* directory, and the blob it wrote is stored.
C1_Witness ==
    /\ backend = "localdir"
    /\ last.op = "save"
    /\ last.err = "ok"
    /\ StoredAt(ChainA(MaxDepth))
    /\ StoredData(ChainA(MaxDepth)) = <<2, 3>>

-----------------------------------------------------------------------------
(* C2 *)

\* C2: every operation called with a path that CleanPath rejects returns an
\* InvalidPath error with the zero result (nil meta, empty lists, false, empty
\* bytes), leaves the store as it was and hands no path to the file system.
C2_InvalidPathRejected ==
    \A p \in Rejected :
        /\ \A r \in { MetaOf(backend, mem, fs, p) } : r.err = "InvalidPath" /\ r.meta = Nil
        /\ \A r \in { ListOf(backend, mem, fs, p) } :
               r.err = "InvalidPath" /\ r.files = {} /\ r.dirs = {}
        /\ \A r \in { ExistOf(backend, mem, fs, p) } : r.err = "InvalidPath" /\ ~r.exists
        /\ \A n \in MaxSizes :
               \A r \in { LoadOf(backend, mem, fs, p, n) } :
                   r.err = "InvalidPath" /\ r.data = Empty
        /\ \A d \in Data :
               \A r \in { SaveOf(backend, mem, fs, p, d) } :
                   r.err = "InvalidPath" /\ r.mem = mem /\ r.fs = fs /\ r.calls = {}
        /\ \A r \in { DeleteOf(backend, mem, fs, p) } :
               r.err = "InvalidPath" /\ r.mem = mem /\ r.fs = fs /\ r.calls = {}
        /\ backend = "localdir" =>
               /\ LdMeta(Ldir, fs, p).calls = {}
               /\ LdList(Ldir, fs, p).calls = {}
               /\ LdExist(Ldir, fs, p).calls = {}
               /\ \A n \in MaxSizes : LdLoad(Ldir, fs, p, n).calls = {}

\* A save with a rejected path has returned InvalidPath while blobs are stored.
C2_Witness ==
    /\ last.op = "save"
    /\ last.err = "InvalidPath"
    /\ Stored(mem, fs) = MaxFiles

-----------------------------------------------------------------------------
(* C3 *)

\* The bytes the claim allows: letters, digits and . _ - /
AllowedBytes == Bytes \ { "*", "\\", ":" }

HasDotDot(p) == \E i \in 1..(Len(p) - 1) : p[i] = "." /\ p[i + 1] = "."

\* C3: CleanPath(p) fails with an InvalidPathError and the empty string for
\* every p that contains "..", begins with "/" or contains a byte that is not
\* allowed, and succeeds for every other p.
C3_CleanPathRejects ==
    cp.done =>
        IF \/ HasDotDot(cp.in)
           \/ (Len(cp.in) > 0 /\ cp.in[1] = "/")
           \/ \E i \in 1..Len(cp.in) : cp.in[i] \notin AllowedBytes
        THEN cp.out.err = "InvalidPath" /\ cp.out.path = Empty
        ELSE cp.out.err = "ok"

\* CleanPath has rejected a string of allowed bytes for its "..".
C3_Witness ==
    /\ cp.done
    /\ cp.in = <<"a", ".", ".", "Z">>
    /\ cp.out.err = "InvalidPath"

-----------------------------------------------------------------------------
(* C4 *)

\* C4 (as claimed): on the local directory, a delete that removes the only
\* file of a nested chain of any depth returns success, and every directory of
\* the chain, which the removal left empty, is removed; BaseDir is not.
C4_DeletePrunesChain ==
    walk.pc = "done" => walk.err = "ok" /\ ~walk.file /\ walk.dirs = 0

-----------------------------------------------------------------------------
(* C5 *)

\* C5 (as claimed): on the local directory, BaseDir is a directory in every
\* state that save and delete calls with accepted paths reach.
C5_BaseDirExists == backend = "localdir" => IsDir(fs, BaseDir)

-----------------------------------------------------------------------------
(* C6 *)

\* The paths that the operations called with the raw path p hand to the file
\* system in the current state.
CallsWith(p) ==
    LdMeta(Ldir, fs, p).calls \cup LdList(Ldir, fs, p).calls \cup LdExist(Ldir, fs, p).calls
        \cup UNION { LdLoad(Ldir, fs, p, n).calls : n \in MaxSizes }
        \cup UNION { LdSave(Ldir, fs, p, d).calls : d \in Data }
        \cup LdDelete(Ldir, fs, p).calls

\* C6 (as claimed): on the local directory, every path that getFullPath returns
\* and every path an operation hands to the file system is BaseDir or lies
\* under it.
C6_StaysInBase ==
    backend = "localdir" =>
        \A p \in RawPaths :
            /\ \A full \in { getFullPath(Ldir, p) } :
                   full.err = "ok" => ~escapesDir(full.path, BaseDir)
            /\ \A q \in CallsWith(p) : ~escapesDir(q, BaseDir)

-----------------------------------------------------------------------------
(* C7 *)

\* C7 (as claimed): from a successful delete(p) until the next save(p), exist(p)
\* is false, load(p, n) fails for every n, and p is not among the files that
\* list returns for the directory of p.
C7_GoneAfterDelete ==
    watch.gone =>
        /\ ~ExistOf(backend, mem, fs, watch.path).exists
        /\ \A n \in MaxSizes : LoadOf(backend, mem, fs, watch.path, n).err # "ok"
        /\ watch.path \notin ListOf(backend, mem, fs, ParentOf(watch.path)).files

-----------------------------------------------------------------------------
(* C8 *)

\* C8 (as claimed): delete(p) for a canonical path p at which nothing is stored
\* returns a PathDoesntExist error and leaves the store as it was.
C8_DeleteMissingFails ==
    \A p \in CanonInputs :
        ~StoredAt(p) =>
            \A r \in { DeleteOf(backend, mem, fs, p) } :
                r.err = "PathDoesntExist" /\ r.mem = mem /\ r.fs = fs

-----------------------------------------------------------------------------
(* C9 *)

\* C9: load(p, maxSize) on a stored path returns a TooLarge error and no data
\* when the stored size is greater than maxSize, and the stored bytes when it
\* is less than or equal to maxSize.
C9_LoadSizeLimit ==
    \A p \in CanonInputs :
        StoredAt(p) =>
            \A n \in MaxSizes :
                \A r \in { LoadOf(backend, mem, fs, p, n) } :
                    IF Len(StoredData(p)) > n
                    THEN r.err = "TooLarge" /\ r.data = Empty
                    ELSE r.err = "ok" /\ r.data = StoredData(p)

\* A load has returned TooLarge while a blob of two bytes is stored.
C9_Witness ==
    /\ last.op = "load"
    /\ last.err = "TooLarge"
    /\ \E p \in CanonInputs : StoredAt(p) /\ Len(StoredData(p)) = 2

-----------------------------------------------------------------------------
(* C10 *)

\* C10 (as claimed): load(p, maxSize) and meta(p) for a canonical path p at
\* which no blob is stored return a PathDoesntExist error with empty data and
\* nil meta, for every maxSize.
C10_MissingIsPathDoesntExist ==
    \A p \in CanonInputs :
        ~StoredAt(p) =>
            /\ \A r \in { MetaOf(backend, mem, fs, p) } :
                   r.err = "PathDoesntExist" /\ r.meta = Nil
            /\ \A n \in MaxSizes :
                   \A r \in { LoadOf(backend, mem, fs, p, n) } :
                       r.err = "PathDoesntExist" /\ r.data = Empty

-----------------------------------------------------------------------------
(* C11 *)

\* C11 (as claimed): an operation that returns an error leaves the store as it
\* was; in particular a delete that returns an error has removed neither the
\* file nor any directory.
C11_ErrorLeavesStore ==
    walk.pc = "done" /\ walk.err # "ok" => walk.file /\ walk.dirs = walk.depth - 1

-----------------------------------------------------------------------------
(* Both backends side by side: every Save and Delete is made with the same  *)
(* arguments on a Memory (mem) and on a LocalDir (fs), both empty at first. *)
(* The reading operations change nothing stored and are left out.           *)

InitBoth ==
    /\ backend = "both"
    /\ mem = NoFiles
    /\ fs = InitFs
    /\ last = NoCall
    /\ cp = NoClean
    /\ walk = NoWalk
    /\ watch = NoWatch
    /\ typeFactoryMap = Registered
    /\ bufs = NoBufs
    /\ insts = NoInsts
    /\ maps = NoMaps
    /\ esc = NoEsc
    /\ fullp = NoFull
    /\ race = NoRace

\* last.err is the error both backends returned, "differ" when they disagree.
BothSave(p, d) ==
    \E m \in { MemSave(mem, p, d) }, l \in { LdSave(Ldir, fs, p, d) } :
        /\ Cardinality(DOMAIN m.mem) <= MaxFiles
        /\ Cardinality(DOMAIN l.fs.files) <= MaxFiles
        /\ mem' = m.mem
        /\ fs' = l.fs
        /\ last' = [op |-> "save", err |-> IF m.err = l.err THEN m.err ELSE "differ", steps |-> 0]
        /\ UNCHANGED <<backend, cp, walk, watch, typeFactoryMap, bufs, insts, maps, esc, fullp, race>>

BothDelete(p) ==
    \E m \in { MemDelete(mem, p) }, l \in { LdDelete(Ldir, fs, p) } :
        /\ mem' = m.mem
        /\ fs' = l.fs
        /\ last' = [op |-> "delete", err |-> IF m.err = l.err THEN m.err ELSE "differ",
                    steps |-> l.steps]
        /\ UNCHANGED <<backend, cp, walk, watch, typeFactoryMap, bufs, insts, maps, esc, fullp, race>>

NextBoth ==
    \/ \E p \in RawPaths, d \in Data : BothSave(p, d)
    \/ \E p \in RawPaths : BothDelete(p)

SpecBoth == InitBoth /\ [][NextBoth]_vars

-----------------------------------------------------------------------------
(* C12 *)

\* C12 (as claimed): after the same sequence of calls from empty stores, every
\* call returns the same outcome on both backends: the same success or error,
\* the same bytes, the same size, the same sets of files and directories.
C12_BackendsAgree ==
    /\ last.err # "differ"
    /\ \A p \in RawPaths :
           /\ \A m \in { MemMeta(mem, p) }, l \in { LdMeta(Ldir, fs, p) } :
                  m.err = l.err /\ m.meta = l.meta
           /\ \A m \in { MemList(mem, p) }, l \in { LdList(Ldir, fs, p) } :
                  m.err = l.err /\ m.files = l.files /\ m.dirs = l.dirs
           /\ \A n \in MaxSizes :
                  \A m \in { MemLoad(mem, p, n) }, l \in { LdLoad(Ldir, fs, p, n) } :
                      m.err = l.err /\ m.data = l.data
           /\ \A d \in Data : MemSave(mem, p, d).err = LdSave(Ldir, fs, p, d).err
           /\ MemDelete(mem, p).err = LdDelete(Ldir, fs, p).err

-----------------------------------------------------------------------------
(* C13 *)

\* The canonical paths at which a blob is stored.
StoredPaths == { k \in CanonInputs : StoredAt(k) }

\* The canonical path k lies below the directory c.
Below(k, c) == k # c /\ (c = Empty \/ HasPrefix(k, c \o <<"/">>))

\* The stored paths whose parent directory is c.
FilesIn(c) == { k \in StoredPaths : k # Empty /\ ParentOf(k) = c }

\* The paths one segment below c that have a stored path beneath them.
DirsIn(c) == { x \in CanonPaths : ParentOf(x) = c /\ \E k \in StoredPaths : Below(k, x) }

\* C13 (as claimed): a list(p) that succeeds returns, as files, exactly the
\* stored paths whose parent directory is the canonical form of p and, as
\* directories, exactly the paths one segment below it with a stored path
\* beneath them; every entry is a canonical path and an immediate child of p.
C13_ListExact ==
    \A p \in RawPaths \ Rejected :
        \A r \in { ListOf(backend, mem, fs, p) } :
            r.err = "ok" =>
                /\ r.files = FilesIn(CleanOf[p].path)
                /\ r.dirs = DirsIn(CleanOf[p].path)
                /\ \A x \in r.files \cup r.dirs :
                       /\ x \in CanonPaths
                       /\ ParentOf(x) = CleanOf[p].path

-----------------------------------------------------------------------------
(* C14 *)

\* C14 (as claimed): list(p) fails only with InvalidPath: for every path that
\* CleanPath accepts, in every reachable state, it returns file and directory
\* sets without error.
C14_ListNeverFails ==
    \A p \in RawPaths \ Rejected : ListOf(backend, mem, fs, p).err = "ok"

-----------------------------------------------------------------------------
(* C15 *)

\* C15: save(p, d) on a path that already holds content succeeds and replaces
\* the content in full: load(p, n) right after it returns exactly d for every
\* n >= len(d), also when d is shorter than the content it replaces.
C15_SaveOverwrites ==
    \A p \in StoredPaths, d \in Data :
        \A saved \in { SaveOf(backend, mem, fs, p, d) } :
            /\ saved.err = "ok"
            /\ \A n \in { k \in MaxSizes : k >= Len(d) } :
                   \A loaded \in { LoadOf(backend, saved.mem, saved.fs, p, n) } :
                       loaded.err = "ok" /\ loaded.data = d

\* A save has succeeded on the local directory and a blob of two bytes, which
\* a shorter content can replace, is stored in a nested directory.
C15_Witness ==
    /\ backend = "localdir"
    /\ last.op = "save"
    /\ last.err = "ok"
    /\ \E p \in StoredPaths : Len(p) > 1 /\ Len(StoredData(p)) = 2

-----------------------------------------------------------------------------
(* C16 *)

\* C16: meta(p) on a stored path returns, without error, a Size equal to the
\* number of bytes stored at p, which is the length of what load(p, n) returns
\* for a large enough n.
C16_MetaSize ==
    \A p \in StoredPaths :
        \A r \in { MetaOf(backend, mem, fs, p) }, loaded \in { LoadOf(backend, mem, fs, p, BigSize) } :
            /\ r.err = "ok"
            /\ loaded.err = "ok"
            /\ r.meta = [Size |-> Len(loaded.data)]
            /\ loaded.data = StoredData(p)

\* A meta call has succeeded while blobs of different sizes are stored.
C16_Witness ==
    /\ last.op = "meta"
    /\ last.err = "ok"
    /\ \E p, q \in StoredPaths : Len(StoredData(p)) = 2 /\ Len(StoredData(q)) = 1

-----------------------------------------------------------------------------
(* C17 *)

\* C17 (as claimed): exist(p) for an accepted path returns true without error
\* exactly when a blob is stored at p, and false without error otherwise.
C17_ExistIffStored ==
    \A p \in RawPaths \ Rejected :
        \A r \in { ExistOf(backend, mem, fs, p) } :
            /\ r.err = "ok"
            /\ r.exists <=> CleanOf[p].path \in StoredPaths

-----------------------------------------------------------------------------
(* C18, C19 *)

\* The segments of p that are neither empty nor ".".
KeptSegs(p) == SelectSeq(Split(p), LAMBDA seg : seg # Empty /\ seg # <<".">>)

RECURSIVE DoubleSlashes(_)
DoubleSlashes(p) ==
    IF p = <<>> THEN <<>>
    ELSE IF Head(p) = "/" THEN <<"/", "/">> \o DoubleSlashes(Tail(p))
    ELSE <<Head(p)>> \o DoubleSlashes(Tail(p))

\* p with a "." segment in front, with a trailing separator, with a trailing
\* "." segment, and with every separator doubled.
Redundant(p) ==
    { <<".", "/">> \o p, p \o <<"/">>, p \o <<"/", ".">>, DoubleSlashes(p) }

\* C18: for every accepted input the result of CleanPath is the input's
\* segments that are neither empty nor "." joined by single "/": no leading
\* or trailing "/", no "//", no "." segment, and "", "." and "./" give the
\* empty root path; an accepted input that differs only in redundant
\* separators, a trailing slash or "." segments gives the same result.
C18_CanonicalForm ==
    cp.done /\ cp.out.err = "ok" =>
        \A c \in { cp.out.path } :
            /\ c = JoinSegs(KeptSegs(cp.in))
            /\ c # Empty => c[1] # "/" /\ c[Len(c)] # "/"
            /\ \A i \in 1..(Len(c) - 1) : ~(c[i] = "/" /\ c[i + 1] = "/")
            /\ c # Empty => \A i \in 1..Len(Split(c)) : Split(c)[i] # <<".">>
            /\ cp.in \in { Empty, <<".">>, <<".", "/">> } => c = Empty
            /\ \A q \in Redundant(cp.in) :
                   \A r \in { CleanPath(q) } : r.err = "ok" => r.path = c

\* CleanPath has accepted an input with a redundant separator or "." segment
\* and returned a non-empty path.
C18_Witness ==
    /\ cp.done /\ cp.out.err = "ok"
    /\ cp.out.path # Empty
    /\ Len(KeptSegs(cp.in)) < Len(Split(cp.in))

\* C19: CleanPath is idempotent: it accepts every path it returned and
\* returns it unchanged.
C19_Idempotent ==
    cp.done /\ cp.out.err = "ok" =>
        \A r \in { CleanPath(cp.out.path) } : r.err = "ok" /\ r.path = cp.out.path

\* CleanPath has changed its input into a non-empty canonical path.
C19_Witness ==
    /\ cp.done /\ cp.out.err = "ok"
    /\ cp.out.path # Empty
    /\ cp.out.path # cp.in

-----------------------------------------------------------------------------
(* C20 *)

\* The accepted raw paths with the canonical form of p.
SameCanonical(p) == { q \in RawPaths \ Rejected : CleanOf[q].path = CleanOf[p].path }

\* C20: on every backend and in every state, two accepted raw paths with the
\* same canonical form get the same answer from meta, list, exist and load
\* (same error kind, same size, same data, same listed paths) and the same
\* outcome from save and delete (same error kind, same stored state after it).
C20_SameCanonicalSameResult ==
    \A p \in RawPaths \ Rejected :
        \A q \in SameCanonical(p) \ {p} :
            /\ MetaOf(backend, mem, fs, p) = MetaOf(backend, mem, fs, q)
            /\ ListOf(backend, mem, fs, p) = ListOf(backend, mem, fs, q)
            /\ ExistOf(backend, mem, fs, p) = ExistOf(backend, mem, fs, q)
            /\ \A n \in MaxSizes :
                   LoadOf(backend, mem, fs, p, n) = LoadOf(backend, mem, fs, q, n)
            /\ \A d \in Data :
                   SaveOf(backend, mem, fs, p, d) = SaveOf(backend, mem, fs, q, d)
            /\ DeleteOf(backend, mem, fs, p) = DeleteOf(backend, mem, fs, q)

\* A list call has succeeded on the local directory while a raw path that is
\* not in canonical form names a directory with entries.
C20_Witness ==
    /\ backend = "localdir"
    /\ last.op = "list"
    /\ last.err = "ok"
    /\ \E p \in VariantPaths :
           \A r \in { ListOf(backend, mem, fs, p) } :
               r.err = "ok" /\ r.files # {} /\ r.dirs # {}

-----------------------------------------------------------------------------
(* The type registry: typeFactoryMap binds each registered stor.Type to its *)
(* Factory. A Factory is named by the function it is; Nil is the nil        *)
(* function value.                                                          *)

Rep(c, n) == [i \in 1..n |-> c]

\* The types the registry is driven with: the unspecified one, the types of
\* the two backend packages, a type of a test, the longest valid type and the
\* shortest type that is too long.
Types ==
    { TypeUnspecified, MemoryStorageType, LocalDirStorageType, <<"T">>,
      Rep("a", MaxTypeLen), Rep("a", MaxTypeLen + 1) }

\* The factories: the two of the backend packages, a test's factory that
\* returns no storage and no error, and the nil function value.
Factories == { "memory.New", "localdir.New", "fact", Nil }

\* The paths a configuration names: BaseDir in absolute form, in relative
\* form and with a trailing separator, a path below it and a path beside it.
ConfPaths == { BaseDir, <<"s">>, <<"/", "s", "/">>, <<"/", "s", "/", "a">>, <<"/", "t">> }

\* filepath.Abs on these paths.
AbsOf == [p \in ConfPaths |-> FilepathAbs(p)]

Confs == [Type : Types, Path : ConfPaths]

\* memory.New that hands every Memory the first map that was made.
MemNewSharesMap(ms, conf) ==
    [storage |-> [kind |-> "Memory", data |-> 1],
     err     |-> "ok",
     maps    |-> IF ms = <<>> THEN <<NoFiles>> ELSE ms]

\* memory.New on the maps ms allocated so far: a Memory with a new, empty map
\* of its own; the configuration has no effect.
MemNew(ms, conf) ==
    [storage |-> [kind |-> "Memory", data |-> Len(ms) + 1],
     err     |-> "ok",
     maps    |-> Append(ms, NoFiles)]

\* localdir.New that keeps the configured path as it was written.
LdNewKeepsPath(f, conf) ==
    Pick({ Pick({ IF info.err # "ok"
                  THEN [storage |-> NoStorage, err |-> "UnableToUse"]
                  ELSE IF ~info.isDir
                  THEN [storage |-> NoStorage, err |-> "NotADirectory"]
                  ELSE [storage |-> [kind |-> "LocalDir", BaseDir |-> conf.Path], err |-> "ok"]
                  : info \in { OsStat(f, absPath) } })
           : absPath \in { AbsOf[conf.Path] } })

\* localdir.New: the configured path made absolute must be an existing
\* directory; it becomes BaseDir.
LdNew(f, conf) ==
    \* filepath.Abs fails only when the working directory cannot be read
    Pick({ Pick({ IF info.err # "ok"
                  THEN [storage |-> NoStorage, err |-> "UnableToUse"]
                  ELSE IF ~info.isDir
                  THEN [storage |-> NoStorage, err |-> "NotADirectory"]
                  ELSE [storage |-> [kind |-> "LocalDir", BaseDir |-> absPath], err |-> "ok"]
                  : info \in { OsStat(f, absPath) } })
           : absPath \in { AbsOf[conf.Path] } })

\* The call factory(conf): the storage and error the factory returns, or a
\* panic when the function value is nil.
CallFactory(factory, ms, f, conf) ==
    IF factory = Nil
    THEN [panicked |-> TRUE, storage |-> NoStorage, err |-> "ok", maps |-> ms]
    ELSE IF factory = "memory.New"
    THEN Pick({ [panicked |-> FALSE, storage |-> r.storage, err |-> r.err, maps |-> r.maps]
                : r \in { MemNew(ms, conf) } })
    ELSE IF factory = "localdir.New"
    THEN Pick({ [panicked |-> FALSE, storage |-> r.storage, err |-> r.err, maps |-> ms]
                : r \in { LdNew(f, conf) } })
    ELSE [panicked |-> FALSE, storage |-> NoStorage, err |-> "ok", maps |-> ms]

\* RegisterType without the check for a type that is already registered.
RegisterTypeOverwrites(m, storageType, factory) ==
    IF Len(storageType) > MaxTypeLen THEN [map |-> m, panicked |-> TRUE]
    ELSE IF storageType = TypeUnspecified THEN [map |-> m, panicked |-> TRUE]
    ELSE [map      |-> [t \in DOMAIN m \cup {storageType} |->
                           IF t = storageType THEN factory ELSE m[t]],
          panicked |-> FALSE]

\* RegisterType without the check of the length.
RegisterTypeAnyLength(m, storageType, factory) ==
    IF storageType = TypeUnspecified THEN [map |-> m, panicked |-> TRUE]
    ELSE IF storageType \in DOMAIN m THEN [map |-> m, panicked |-> TRUE]
    ELSE [map      |-> [t \in DOMAIN m \cup {storageType} |->
                           IF t = storageType THEN factory ELSE m[t]],
          panicked |-> FALSE]

\* RegisterType on the registry m: the registry after the call and whether
\* the call panicked.
RegisterType(m, storageType, factory) ==
    IF Len(storageType) > MaxTypeLen THEN [map |-> m, panicked |-> TRUE]
    ELSE IF storageType = TypeUnspecified THEN [map |-> m, panicked |-> TRUE]
    ELSE IF storageType \in DOMAIN m THEN [map |-> m, panicked |-> TRUE]
    ELSE [map      |-> [t \in DOMAIN m \cup {storageType} |->
                           IF t = storageType THEN factory ELSE m[t]],
          panicked |-> FALSE]

\* New without the check for the unspecified type.
NewLooksUpAnyType(m, ms, f, conf) ==
    IF conf.Type \notin DOMAIN m
    THEN [panicked |-> FALSE, storage |-> NoStorage, err |-> "UnregisteredType",
          errType |-> conf.Type, invoked |-> <<>>, map |-> m, maps |-> ms]
    ELSE Pick({ Pick({ [panicked |-> r.panicked, storage |-> r.storage, err |-> r.err,
                        errType |-> Empty,
                        invoked |-> IF r.panicked THEN <<>>
                                    ELSE <<[factory |-> factory, conf |-> conf]>>,
                        map |-> m, maps |-> r.maps]
                       : r \in { CallFactory(factory, ms, f, conf) } })
                : factory \in { m[conf.Type] } })

\* stor.New on the registry m, the maps ms and the file system f: what it
\* returns, the calls of factories it made, and the registry and the maps
\* after the call.
StorNew(m, ms, f, conf) ==
    IF conf.Type = TypeUnspecified
    THEN [panicked |-> FALSE, storage |-> NoStorage, err |-> "UnspecifiedType",
          errType |-> Empty, invoked |-> <<>>, map |-> m, maps |-> ms]
    ELSE IF conf.Type \notin DOMAIN m
    THEN [panicked |-> FALSE, storage |-> NoStorage, err |-> "UnregisteredType",
          errType |-> conf.Type, invoked |-> <<>>, map |-> m, maps |-> ms]
    ELSE Pick({ Pick({ [panicked |-> r.panicked, storage |-> r.storage, err |-> r.err,
                        errType |-> Empty,
                        invoked |-> IF r.panicked THEN <<>>
                                    ELSE <<[factory |-> factory, conf |-> conf]>>,
                        map |-> m, maps |-> r.maps]
                       : r \in { CallFactory(factory, ms, f, conf) } })
                : factory \in { m[conf.Type] } })

InitReg ==
    /\ backend = "memory"
    /\ mem = NoFiles
    /\ fs = InitFs
    /\ last = NoCall
    /\ cp = NoClean
    /\ walk = NoWalk
    /\ watch = NoWatch
    /\ typeFactoryMap = NoTypes
    /\ bufs = NoBufs
    /\ insts = NoInsts
    /\ maps = NoMaps
    /\ esc = NoEsc
    /\ fullp = NoFull
    /\ race = NoRace

RegisterTypeCall(storageType, factory) ==
    \E r \in { RegisterType(typeFactoryMap, storageType, factory) } :
        /\ typeFactoryMap' = r.map
        /\ last' = [op |-> "RegisterType", type |-> storageType, factory |-> factory,
                    panicked |-> r.panicked]
        /\ UNCHANGED <<backend, mem, fs, cp, walk, watch, bufs, insts, maps, esc, fullp, race>>

NewCall(conf) ==
    \E r \in { StorNew(typeFactoryMap, maps, fs, conf) } :
        /\ typeFactoryMap' = r.map
        /\ last' = [op |-> "New", conf |-> conf, panicked |-> r.panicked,
                    storage |-> r.storage, err |-> r.err, invoked |-> r.invoked]
        /\ UNCHANGED <<backend, mem, fs, cp, walk, watch, bufs, insts, maps, esc, fullp, race>>

NextReg ==
    \/ \E t \in Types, factory \in Factories : RegisterTypeCall(t, factory)
    \/ \E conf \in Confs : NewCall(conf)

SpecReg == InitReg /\ [][NextReg]_vars

-----------------------------------------------------------------------------
(* C21 .. C24 *)

\* C21: RegisterType(t, f) panics whenever t is the unspecified type, is
\* longer than MaxTypeLen (20) or is already registered, and then leaves the
\* registry, with the factory bound to t, as it was; any other t is
\* registered with f.
C21_RegisterTypePanics ==
    /\ MaxTypeLen = 20
    /\ \A t \in Types, factory \in Factories :
           \A r \in { RegisterType(typeFactoryMap, t, factory) } :
               IF t = Empty \/ Len(t) > 20 \/ t \in DOMAIN typeFactoryMap
               THEN r.panicked /\ r.map = typeFactoryMap
               ELSE /\ ~r.panicked
                    /\ DOMAIN r.map = DOMAIN typeFactoryMap \cup {t}
                    /\ r.map[t] = factory
                    /\ \A u \in DOMAIN typeFactoryMap : r.map[u] = typeFactoryMap[u]

\* A registration of a registered type with another factory has panicked and
\* the type is still bound to the first factory.
C21_Witness ==
    /\ last.op = "RegisterType"
    /\ last.panicked
    /\ last.type \in DOMAIN typeFactoryMap
    /\ typeFactoryMap[last.type] # last.factory

\* C22: New(conf) returns no storage and an UnspecifiedTypeError when
\* conf.Type is unspecified, and no storage and an UnregisteredTypeError with
\* conf.Type when conf.Type is not registered; no factory is called and the
\* registry is unchanged.
C22_NewWithoutFactory ==
    \A conf \in Confs :
        \A r \in { StorNew(typeFactoryMap, maps, fs, conf) } :
            /\ conf.Type = Empty =>
                   /\ ~r.panicked /\ r.storage = NoStorage /\ r.err = "UnspecifiedType"
                   /\ r.invoked = <<>> /\ r.map = typeFactoryMap
            /\ conf.Type # Empty /\ conf.Type \notin DOMAIN typeFactoryMap =>
                   /\ ~r.panicked /\ r.storage = NoStorage /\ r.err = "UnregisteredType"
                   /\ r.errType = conf.Type
                   /\ r.invoked = <<>> /\ r.map = typeFactoryMap

\* New has returned an UnregisteredTypeError while other types are registered.
C22_Witness ==
    /\ last.op = "New"
    /\ last.err = "UnregisteredType"
    /\ last.storage = NoStorage
    /\ typeFactoryMap # NoTypes

\* C23 (as claimed): for every conf whose Type is registered, New(conf) calls
\* the factory registered for that type, once, with that conf, calls no other
\* factory, and returns what the factory returned.
C23_NewCallsRegistered ==
    \A conf \in { c \in Confs : c.Type \in DOMAIN typeFactoryMap } :
        \A r \in { StorNew(typeFactoryMap, maps, fs, conf) } :
            /\ ~r.panicked
            /\ r.invoked = <<[factory |-> typeFactoryMap[conf.Type], conf |-> conf]>>
            /\ r.map = typeFactoryMap

\* C24: in every state reached by RegisterType and New calls every key of
\* the registry is non-empty and at most 20 bytes long, and no step removes
\* or rebinds an entry.
C24_RegistryOnlyGrows ==
    /\ [](\A t \in DOMAIN typeFactoryMap : t # Empty /\ Len(t) <= 20)
    /\ [][\A t \in DOMAIN typeFactoryMap :
              t \in DOMAIN typeFactoryMap' /\ typeFactoryMap'[t] = typeFactoryMap[t]]_vars

\* A type of 20 bytes is registered and the registration of a type of 21 bytes
\* has panicked.
C24_Witness ==
    /\ Rep("a", 20) \in DOMAIN typeFactoryMap
    /\ last.op = "RegisterType"
    /\ last.panicked
    /\ Len(last.type) = 21

-----------------------------------------------------------------------------
(* The in-memory backend with its buffers. A []byte is a reference to an    *)
(* array: bufs.cells[b] is the content of array b, bufs.data maps each key  *)
(* of Memory.data to the array it holds, bufs.held are the arrays the       *)
(* caller holds and bufs.used those of them it passed to Save or got from   *)
(* Load. mem is what Memory.data holds, read through the arrays.            *)

\* How many arrays are allocated.
MaxBufs == 4

\* The byte a caller writes into an array it holds.
Scribble == 7

CopyPaths == { <<"a">>, <<"a", "/">>, <<"b">>, <<".", ".">> }

Content(h) == [k \in DOMAIN h.data |-> h.cells[h.data[k]]]

\* Save that keeps the caller's slice instead of a copy of it.
BufSaveAliases(h, filePath, b) ==
    Pick({ IF c.err # "ok" THEN [bufs |-> h, err |-> c.err]
           ELSE [bufs |-> [h EXCEPT !.data = [k \in DOMAIN h.data \cup {c.path} |->
                                                 IF k = c.path THEN b ELSE h.data[k]],
                                    !.used = @ \cup {b}],
                 err  |-> "ok"]
           : c \in { CleanOf[filePath] } })

\* Memory.Save of the caller's array b: make allocates a new array, copy
\* fills it, and the map holds the new array.
BufSave(h, filePath, b) ==
    Pick({ IF c.err # "ok" THEN [bufs |-> h, err |-> c.err]
           ELSE Pick({ [bufs |-> [h EXCEPT !.cells = Append(@, h.cells[b]),
                                           !.data = [k \in DOMAIN h.data \cup {c.path} |->
                                                        IF k = c.path THEN new ELSE h.data[k]],
                                           !.used = @ \cup {b}],
                        err  |-> "ok"]
                       : new \in { Len(h.cells) + 1 } })
           : c \in { CleanOf[filePath] } })

\* Memory.Load: the caller gets a new array filled by copy, or on an error a
\* new empty one.
BufLoad(h, filePath, maxSize) ==
    Pick({ Pick({ IF c.err # "ok" \/ c.path \notin DOMAIN h.data
                     \/ Len(h.cells[h.data[c.path]]) > maxSize
                  THEN [bufs |-> [h EXCEPT !.cells = Append(@, Empty), !.held = @ \cup {new}],
                        err  |-> IF c.err # "ok" THEN c.err
                                 ELSE IF c.path \notin DOMAIN h.data THEN "PathDoesntExist"
                                 ELSE "TooLarge",
                        buf  |-> new]
                  ELSE [bufs |-> [h EXCEPT !.cells = Append(@, h.cells[h.data[c.path]]),
                                           !.held = @ \cup {new},
                                           !.used = @ \cup {new}],
                        err  |-> "ok",
                        buf  |-> new]
                  : new \in { Len(h.cells) + 1 } })
           : c \in { CleanOf[filePath] } })

InitCopy ==
    /\ backend = "memory"
    /\ mem = NoFiles
    /\ fs = InitFs
    /\ last = NoCall
    /\ cp = NoClean
    /\ walk = NoWalk
    /\ watch = NoWatch
    /\ typeFactoryMap = Registered
    /\ bufs = NoBufs
    /\ insts = NoInsts
    /\ maps = NoMaps
    /\ esc = NoEsc
    /\ fullp = NoFull
    /\ race = NoRace

\* The caller allocates an array with the bytes d.
CallerMakes(d) ==
    /\ Len(bufs.cells) < MaxBufs
    /\ bufs' = [bufs EXCEPT !.cells = Append(@, d), !.held = @ \cup {Len(bufs.cells) + 1}]
    /\ last' = [op |-> "make", err |-> "ok", buf |-> Len(bufs.cells) + 1]
    /\ UNCHANGED <<backend, mem, fs, cp, walk, watch, typeFactoryMap, insts, maps, esc, fullp, race>>

\* The caller writes a byte into an array it holds.
CallerWrites(b, i) ==
    /\ b \in bufs.held
    /\ i \in 1..Len(bufs.cells[b])
    /\ bufs.cells[b][i] # Scribble
    /\ \E h \in { [bufs EXCEPT !.cells[b][i] = Scribble] } :
           /\ bufs' = h
           /\ mem' = Content(h)
    /\ last' = [op |-> "write", err |-> "ok", buf |-> b]
    /\ UNCHANGED <<backend, fs, cp, walk, watch, typeFactoryMap, insts, maps, esc, fullp, race>>

CopySave(p, b) ==
    /\ b \in bufs.held
    /\ Len(bufs.cells) < MaxBufs
    /\ \E r \in { BufSave(bufs, p, b) } :
           /\ bufs' = r.bufs
           /\ mem' = Content(r.bufs)
           /\ last' = [op |-> "save", err |-> r.err, buf |-> b]
    /\ UNCHANGED <<backend, fs, cp, walk, watch, typeFactoryMap, insts, maps, esc, fullp, race>>

CopyLoad(p, n) ==
    /\ Len(bufs.cells) < MaxBufs
    /\ \E r \in { BufLoad(bufs, p, n) } :
           /\ bufs' = r.bufs
           /\ mem' = Content(r.bufs)
           /\ last' = [op |-> "load", err |-> r.err, buf |-> r.buf]
    /\ UNCHANGED <<backend, fs, cp, walk, watch, typeFactoryMap, insts, maps, esc, fullp, race>>

NextCopy ==
    \/ \E d \in Data : CallerMakes(d)
    \/ \E b \in 1..MaxBufs, i \in 1..2 : CallerWrites(b, i)
    \/ \E p \in CopyPaths, b \in 1..MaxBufs : CopySave(p, b)
    \/ \E p \in CopyPaths, n \in MaxSizes : CopyLoad(p, n)

SpecCopy == InitCopy /\ [][NextCopy]_vars

\* C25: the in-memory backend copies on save and on load: a caller writing
\* into a buffer it passed to save or got from load changes neither the stored
\* content nor what any later load or meta returns.
C25_CallerWritesStayOutside ==
    [][last'.op = "write" =>
          /\ mem' = mem
          /\ \A p \in CopyPaths :
                 /\ MemLoad(mem', p, BigSize) = MemLoad(mem, p, BigSize)
                 /\ MemMeta(mem', p) = MemMeta(mem, p)]_vars

\* The caller has written into a buffer that it had passed to save or got
\* from load, and the blob stored is not what that buffer holds now.
C25_Witness ==
    /\ last.op = "write"
    /\ last.buf \in bufs.used
    /\ \E k \in DOMAIN mem : Len(mem[k]) = Len(bufs.cells[last.buf]) /\ mem[k] # bufs.cells[last.buf]

-----------------------------------------------------------------------------
(* Storage objects made by stor.New: insts are the objects a program holds, *)
(* maps[i] is the i-th map that memory.New made, and the LocalDir objects   *)
(* work on the one file system fs.                                          *)

\* How many Storage objects the program constructs.
MaxInsts == 2

InstConfs == [Type : { MemoryStorageType, LocalDirStorageType }, Path : ConfPaths]

InstPaths == { Empty, <<"a">>, <<"b">>, <<"a", "/", "b">>, <<"a", "/">> }

InstData == { <<1>>, <<2, 3>> }

\* The file system the objects are constructed on: BaseDir and a directory
\* beside it exist and are empty.
InitFsTwo == [dirs |-> { <<"/">>, BaseDir, <<"/", "t">> }, files |-> NoFiles]

\* The operations of the Storage object s.
InstMeta(s, ms, f, p) == IF s.kind = "Memory" THEN MemMeta(ms[s.data], p) ELSE LdMeta(s, f, p)
InstList(s, ms, f, p) == IF s.kind = "Memory" THEN MemList(ms[s.data], p) ELSE LdList(s, f, p)
InstExist(s, ms, f, p) == IF s.kind = "Memory" THEN MemExist(ms[s.data], p) ELSE LdExist(s, f, p)
InstLoad(s, ms, f, p, n) ==
    IF s.kind = "Memory" THEN MemLoad(ms[s.data], p, n) ELSE LdLoad(s, f, p, n)

InstSave(s, ms, f, p, d) ==
    IF s.kind = "Memory"
    THEN Pick({ [maps |-> [ms EXCEPT ![s.data] = r.mem], fs |-> f, err |-> r.err]
                : r \in { MemSave(ms[s.data], p, d) } })
    ELSE Pick({ [maps |-> ms, fs |-> r.fs, err |-> r.err] : r \in { LdSave(s, f, p, d) } })

InstDelete(s, ms, f, p) ==
    IF s.kind = "Memory"
    THEN Pick({ [maps |-> [ms EXCEPT ![s.data] = r.mem], fs |-> f, err |-> r.err]
                : r \in { MemDelete(ms[s.data], p) } })
    ELSE Pick({ [maps |-> ms, fs |-> r.fs, err |-> r.err] : r \in { LdDelete(s, f, p) } })

\* The blobs held by the maps and the file system.
StoredIn(ms, f) ==
    Cardinality({ <<i, k>> \in (DOMAIN ms) \X InstPaths : k \in DOMAIN ms[i] })
        + Cardinality(DOMAIN f.files)

InitInst ==
    /\ backend = "both"
    /\ mem = NoFiles
    /\ fs = InitFsTwo
    /\ last = NoCall
    /\ cp = NoClean
    /\ walk = NoWalk
    /\ watch = NoWatch
    /\ typeFactoryMap = Registered
    /\ bufs = NoBufs
    /\ insts = NoInsts
    /\ maps = NoMaps
    /\ esc = NoEsc
    /\ fullp = NoFull
    /\ race = NoRace

\* The program constructs a Storage object and keeps it when New returned one.
NewInst(conf) ==
    /\ Len(insts) < MaxInsts
    /\ \E r \in { StorNew(typeFactoryMap, maps, fs, conf) } :
           /\ insts' = IF r.err = "ok" /\ r.storage # NoStorage THEN Append(insts, r.storage) ELSE insts
           /\ maps' = IF r.err = "ok" /\ r.storage # NoStorage THEN r.maps ELSE maps
           /\ typeFactoryMap' = r.map
           /\ last' = [op |-> "new", inst |-> 0, err |-> r.err, conf |-> conf]
    /\ UNCHANGED <<backend, mem, fs, cp, walk, watch, bufs, esc, fullp, race>>

SaveOn(j, p, d) ==
    /\ j \in DOMAIN insts
    /\ \E r \in { InstSave(insts[j], maps, fs, p, d) } :
           /\ StoredIn(r.maps, r.fs) <= MaxFiles
           /\ maps' = r.maps
           /\ fs' = r.fs
           /\ last' = [op |-> "save", inst |-> j, err |-> r.err, conf |-> Nil]
    /\ UNCHANGED <<backend, mem, cp, walk, watch, typeFactoryMap, bufs, insts, esc, fullp, race>>

DeleteOn(j, p) ==
    /\ j \in DOMAIN insts
    /\ \E r \in { InstDelete(insts[j], maps, fs, p) } :
           /\ maps' = r.maps
           /\ fs' = r.fs
           /\ last' = [op |-> "delete", inst |-> j, err |-> r.err, conf |-> Nil]
    /\ UNCHANGED <<backend, mem, cp, walk, watch, typeFactoryMap, bufs, insts, esc, fullp, race>>

NextInst ==
    \/ \E conf \in InstConfs : NewInst(conf)
    \/ \E j \in 1..MaxInsts, p \in InstPaths, d \in InstData : SaveOn(j, p, d)
    \/ \E j \in 1..MaxInsts, p \in InstPaths : DeleteOn(j, p)

SpecInst == InitInst /\ [][NextInst]_vars

-----------------------------------------------------------------------------
(* C26 *)

LdConfs == { conf \in InstConfs : conf.Type = LocalDirStorageType }

\* The configured path from the root, without empty and "." segments.
CleanAbs(p) == <<"/">> \o JoinSegs(KeptSegs(p))

\* C26 (as claimed): constructing a LocalDir fails with a nil object when the
\* configured path is not an existing directory; otherwise BaseDir is the
\* configured path as it is when that is absolute and the path resolved
\* against the working directory when it is relative; no operation changes
\* BaseDir afterwards.
C26_BaseDirAsConfigured ==
    /\ [](\A conf \in LdConfs :
              \A r \in { LdNew(fs, conf) } :
                  IF IsDir(fs, CleanAbs(conf.Path))
                  THEN /\ r.err = "ok"
                       /\ r.storage.BaseDir = IF IsAbs(conf.Path) THEN conf.Path
                                              ELSE CleanAbs(conf.Path)
                  ELSE r.storage = NoStorage /\ r.err # "ok")
    /\ [][\A j \in DOMAIN insts : insts'[j] = insts[j]]_vars

\* C26 (amended): constructing a LocalDir fails with a nil object when the
\* configured path is not an existing directory; otherwise BaseDir is the
\* cleaned absolute form of the configured path (an absolute path loses its
\* redundant and trailing separators, a relative path is resolved against the
\* working directory); no operation changes BaseDir afterwards.
C26_BaseDirIsCleanAbs ==
    /\ [](\A conf \in LdConfs :
              \A r \in { LdNew(fs, conf) } :
                  IF IsDir(fs, CleanAbs(conf.Path))
                  THEN /\ r.err = "ok"
                       /\ r.storage = [kind |-> "LocalDir", BaseDir |-> CleanAbs(conf.Path)]
                  ELSE r.storage = NoStorage /\ r.err # "ok")
    /\ [][\A j \in DOMAIN insts : insts'[j] = insts[j]]_vars

\* A LocalDir was constructed from a path that was not written as BaseDir
\* holds it, it has stored a blob, and the construction of a second one on
\* that blob's file has failed.
C26_Witness ==
    /\ last.op = "new"
    /\ last.err = "NotADirectory"
    /\ \E j \in DOMAIN insts : insts[j].kind = "LocalDir"
    /\ \E conf \in LdConfs :
           /\ conf.Path # CleanAbs(conf.Path)
           /\ LdNew(fs, conf).err = "ok"

-----------------------------------------------------------------------------
(* C27 *)

\* What the read operations of the Storage object s return.
ViewOf(s, ms, f) ==
    [p \in InstPaths |->
        [meta  |-> InstMeta(s, ms, f, p),
         list  |-> InstList(s, ms, f, p),
         exist |-> InstExist(s, ms, f, p),
         load  |-> [n \in MaxSizes |-> InstLoad(s, ms, f, p, n)]]]

\* Neither base directory is the other or lies below it.
Apart(s, t) == escapesDir(s.BaseDir, t.BaseDir) /\ escapesDir(t.BaseDir, s.BaseDir)

\* C27 (as claimed): for two Memory objects or two LocalDir objects made by
\* the factory, whatever their configured paths, a save or delete on one never
\* changes what meta, list, exist or load return on the other.
C27_InstancesIndependent ==
    [][\A j \in DOMAIN insts :
           /\ last'.op \in { "save", "delete" }
           /\ last'.inst # j
           /\ insts[j].kind = insts[last'.inst].kind
           => ViewOf(insts[j], maps', fs') = ViewOf(insts[j], maps, fs)]_vars

\* C27 (amended): the same for two Memory objects and for two LocalDir objects
\* whose base directories are apart.
C27_ApartInstancesIndependent ==
    [][\A j \in DOMAIN insts :
           /\ last'.op \in { "save", "delete" }
           /\ last'.inst # j
           /\ insts[j].kind = insts[last'.inst].kind
           /\ insts[j].kind = "LocalDir" => Apart(insts[j], insts[last'.inst])
           => ViewOf(insts[j], maps', fs') = ViewOf(insts[j], maps, fs)]_vars

\* A save has succeeded on one of two objects of the same kind, which are
\* apart when they are LocalDir objects, while the other one holds a blob.
C27_Witness ==
    /\ last.op = "save"
    /\ last.err = "ok"
    /\ \E j \in DOMAIN insts :
           /\ j # last.inst
           /\ insts[j].kind = "LocalDir"
           /\ insts[last.inst].kind = "LocalDir"
           /\ Apart(insts[j], insts[last.inst])
           /\ \E p \in InstPaths : InstLoad(insts[j], maps, fs, p, BigSize).err = "ok"

-----------------------------------------------------------------------------
(* The error values and their classification *)

ErrorKinds == { "InvalidPath", "PathDoesntExist", "TooLarge", "UnspecifiedType", "UnregisteredType" }

\* What the errors carry: paths and types.
ErrArgs == {Empty} \cup CanonPaths \cup { MemoryStorageType }

StorErrors ==
    { [kind |-> k, arg |-> a, msg |-> Empty] : k \in ErrorKinds \ {"UnspecifiedType"}, a \in ErrArgs }
        \cup { [kind |-> "InvalidPath", arg |-> a, msg |-> <<"relative">>] : a \in ErrArgs }
        \cup { [kind |-> "UnspecifiedType", arg |-> Empty, msg |-> Empty] }

\* The errors of other packages: one for every message of a stor error, and
\* the "test" of the tests.
OtherErrors ==
    { [kind |-> "errorString", arg |-> t, msg |-> Empty]
      : t \in { ErrorText(e) : e \in StorErrors } \cup { [fmt |-> "test", arg |-> Empty] } }

ErrorValues == StorErrors \cup OtherErrors \cup { NilError }

InitErr ==
    /\ backend = "memory"
    /\ mem = NoFiles
    /\ fs = InitFs
    /\ last \in { [op |-> "error", err |-> e, is |-> {}] : e \in ErrorValues }
    /\ cp = NoClean
    /\ walk = NoWalk
    /\ watch = NoWatch
    /\ typeFactoryMap = Registered
    /\ bufs = NoBufs
    /\ insts = NoInsts
    /\ maps = NoMaps
    /\ esc = NoEsc
    /\ fullp = NoFull
    /\ race = NoRace

\* The five predicates are applied to the error; last.is holds the kinds
\* whose predicate returned true.
Classify ==
    /\ last.op = "error"
    /\ \E e \in { last.err } :
           last' = [op  |-> "classified",
                    err |-> e,
                    is  |-> { k \in ErrorKinds :
                                \/ k = "InvalidPath" /\ IsInvalidPathError(e)
                                \/ k = "PathDoesntExist" /\ IsPathDoesntExistError(e)
                                \/ k = "TooLarge" /\ IsTooLargeError(e)
                                \/ k = "UnspecifiedType" /\ IsUnspecifiedTypeError(e)
                                \/ k = "UnregisteredType" /\ IsUnregisteredTypeError(e) }]
    /\ UNCHANGED <<backend, mem, fs, cp, walk, watch, typeFactoryMap, bufs, insts, maps, esc, fullp, race>>

NextErr == Classify

SpecErr == InitErr /\ [][NextErr]_vars

-----------------------------------------------------------------------------
(* C28 *)

-----------------------------------------------------------------------------
(* C29 *)

\* C29 (as claimed): the upward walk of Delete ends at BaseDir or at an
\* ancestor that is not empty, after at most one iteration for every segment
\* of the path; the cap of 1000 iterations never ends it, however deep the
\* path is.
C29_WalkEndsWithoutCap ==
    walk.pc = "done" /\ walk.err # "PathDoesntExist" =>
        /\ walk.err # "InfiniteLoop"
        /\ walk.i <= walk.depth
        /\ walk.parentDir = 0 \/ ChainReadDir(walk, walk.parentDir).entries > 0

-----------------------------------------------------------------------------
(* C30 *)

\* C30 (as claimed): a delete(p) that succeeds on the local directory removes
\* the file p and nothing else but ancestor directories of p that are empty
\* after the removal: every other file keeps its content, and the first
\* ancestor with an entry, the directories above it and the sibling
\* directories stay.
C30_DeleteRemovesOnlyChain ==
    backend = "localdir" =>
        \A p \in RawPaths \ Rejected :
            \A r \in { LdDelete(Ldir, fs, p) }, full \in { FullPathOf[BaseDir][p].path } :
                r.err = "ok" =>
                    /\ IsFile(fs, full)
                    /\ r.fs.files = [q \in DOMAIN fs.files \ {full} |-> fs.files[q]]
                    /\ r.fs.dirs \subseteq fs.dirs
                    /\ \A d \in fs.dirs \ r.fs.dirs :
                           /\ d \in AncestorsOf[full]
                           /\ Children(r.fs, d) = {}
                    /\ \A d \in fs.dirs \cap AncestorsOf[full] :
                           Children(r.fs, d) # {} => d \in r.fs.dirs

-----------------------------------------------------------------------------
(* C31 *)

\* C31 (as claimed): in every state a sequence of save and delete calls
\* reaches from the empty store, every directory below BaseDir has a stored
\* file beneath it; so after the delete of the only stored file no directory
\* is left for list("") to return.
C31_NoEmptyDirectory ==
    walk.pc \in { "remove", "done" } => (walk.dirs > 0 => walk.file)

-----------------------------------------------------------------------------
(* C32 *)

\* C32: the first rule of CleanPath that fails gives the reason: an input
\* with ".." is reported as a forbidden combination even when it is absolute
\* or has a forbidden byte; otherwise an absolute input is reported as not
\* relative even when it has a forbidden byte; otherwise the reason names the
\* forbidden byte with the lowest index and that index.
C32_FirstRuleGivesReason ==
    cp.done /\ cp.out.err = "InvalidPath" =>
        IF HasDotDot(cp.in) THEN cp.out.msg = <<"forbidden">>
        ELSE IF cp.in[1] = "/" THEN cp.out.msg = <<"relative">>
        ELSE \E i \in 1..Len(cp.in) :
                 /\ cp.in[i] \notin AllowedBytes
                 /\ \A j \in 1..(i - 1) : cp.in[j] \in AllowedBytes
                 /\ cp.out.msg = <<"byte", cp.in[i], i - 1>>

\* CleanPath has rejected an input that breaks all three rules, and one
\* with two forbidden bytes can be rejected.
C32_Witness ==
    /\ cp.done
    /\ cp.in = <<"/", ".", ".", "*">>
    /\ cp.out.msg = <<"forbidden">>
    /\ CleanPath(<<"a", ":", "*">>).msg = <<"byte", ":", 1>>

-----------------------------------------------------------------------------
(* escapesDir as a function of its two arguments. Its callers pass absolute, *)
(* clean paths: getFullPath the result of filepath.Abs, Delete the result of *)
(* filepath.Dir, and both the BaseDir that New made absolute.                *)

\* The absolute, clean paths of up to MaxLen bytes over two names and the
\* separator; the file system root is one of them.
EscPaths ==
    { p \in { q \in StringsUpTo(MaxLen) : \A i \in 1..Len(q) : q[i] \in { "/", "a", "Z" } } :
        IsAbs(p) /\ Clean(p) = p }

InitEsc ==
    /\ backend = "memory"
    /\ mem = NoFiles
    /\ fs = InitFs
    /\ last = NoCall
    /\ cp = NoClean
    /\ walk = NoWalk
    /\ watch = NoWatch
    /\ typeFactoryMap = NoTypes
    /\ bufs = NoBufs
    /\ insts = NoInsts
    /\ maps = NoMaps
    /\ esc \in { [path |-> p, baseDir |-> b, done |-> FALSE, escapes |-> FALSE]
                 : p \in EscPaths, b \in EscPaths }
    /\ fullp = NoFull
    /\ race = NoRace

EscStep ==
    /\ ~esc.done
    /\ esc' = [esc EXCEPT !.done = TRUE, !.escapes = escapesDir(esc.path, esc.baseDir)]
    /\ UNCHANGED <<backend, mem, fs, last, cp, walk, watch, typeFactoryMap, bufs, insts, maps, fullp, race>>

NextEsc == EscStep

SpecEsc == InitEsc /\ [][NextEsc]_vars

(* C33 *)

\* baseDir with one separator at its end.
WithSeparator(baseDir) ==
    IF baseDir[Len(baseDir)] = "/" THEN baseDir ELSE baseDir \o <<"/">>

\* C33: escapesDir(path, baseDir) is false exactly when path equals baseDir
\* or begins with baseDir followed by a separator, where a baseDir that ends
\* in a separator (the root) gets no second one; so a sibling whose name
\* begins with the name of baseDir escapes.
C33_EscapesUnlessEqualOrBelow ==
    esc.done =>
        (~esc.escapes <=>
            \/ esc.path = esc.baseDir
            \/ \E n \in 1..(Len(esc.path) - 1) :
                   SubSeq(esc.path, 1, n) = WithSeparator(esc.baseDir))

\* escapesDir has reported a sibling whose name begins with the name of the
\* base as escaping, and a path below the root as not escaping the root.
C33_Witness ==
    /\ esc.done
    /\ esc.baseDir = <<"/", "a">>
    /\ esc.path = <<"/", "a", "Z">>
    /\ esc.escapes
    /\ ~escapesDir(<<"/", "a">>, <<"/">>)
    /\ ~escapesDir(<<"/", "a", "/", "Z">>, <<"/", "a">>)

-----------------------------------------------------------------------------
(* getFullPath as a function of BaseDir and the path.                        *)

\* The BaseDir values New produces: filepath.Abs of a configured path that
\* names a directory; the file system root is one of them.
FullBases == { AbsOf[p] : p \in ConfPaths } \cup { <<Separator>> }

InitFull ==
    /\ backend = "localdir"
    /\ mem = NoFiles
    /\ fs = InitFs
    /\ last = NoCall
    /\ cp = NoClean
    /\ walk = NoWalk
    /\ watch = NoWatch
    /\ typeFactoryMap = NoTypes
    /\ bufs = NoBufs
    /\ insts = NoInsts
    /\ maps = NoMaps
    /\ esc = NoEsc
    /\ fullp \in { [baseDir |-> b, filePath |-> p, done |-> FALSE, out |-> NoFull.out]
                   : b \in FullBases, p \in CleanInputs }
    /\ race = NoRace

FullStep ==
    /\ ~fullp.done
    /\ fullp' = [fullp EXCEPT !.done = TRUE,
                              !.out = getFullPath([BaseDir |-> fullp.baseDir], fullp.filePath)]
    /\ UNCHANGED <<backend, mem, fs, last, cp, walk, watch, typeFactoryMap, bufs, insts, maps, esc, race>>

NextFull == FullStep

SpecFull == InitFull /\ [][NextFull]_vars

(* C36 *)

\* C36: for every BaseDir that New produces and every path, getFullPath
\* fails exactly when CleanPath fails, with the error of CleanPath; for a path
\* CleanPath accepts the result is BaseDir or begins with BaseDir followed by
\* a separator, so the escape check never fails.
C36_EscapeCheckNeverFails ==
    fullp.done =>
        \A c \in { CleanPath(fullp.filePath) } :
            /\ fullp.out.err = c.err
            /\ c.err = "ok" =>
                  \/ fullp.out.path = fullp.baseDir
                  \/ HasPrefix(fullp.out.path, WithSeparator(fullp.baseDir))

\* getFullPath has resolved an accepted path that walks through "." and a
\* doubled separator to a path below BaseDir, and resolves a path below the
\* file system root.
C36_Witness ==
    /\ fullp.done
    /\ fullp.baseDir = BaseDir
    /\ fullp.filePath = <<".", "/", "/", "a">>
    /\ fullp.out = [err |-> "ok", path |-> <<"/", "s", "/", "a">>]
    /\ getFullPath([BaseDir |-> <<"/">>], <<"a">>) = [err |-> "ok", path |-> <<"/", "a">>]

-----------------------------------------------------------------------------
(* C37 *)

\* C37 (as claimed): in every reachable state of either backend the root
\* path "" is not a stored file, no stored path lies below another stored
\* path, and the files and directories of every list(p) that succeeds are
\* disjoint; so a save of the root path, or of a path above or below a stored
\* file, has failed.
C37_FileXorDirectory ==
    /\ ~StoredAt(Empty)
    /\ \A k \in StoredPaths : ~\E q \in StoredPaths : Below(q, k)
    /\ \A p \in RawPaths \ Rejected :
           \A r \in { ListOf(backend, mem, fs, p) } :
               r.err = "ok" => r.files \cap r.dirs = {}

-----------------------------------------------------------------------------
(* C38 *)

\* A blob is stored at the canonical path q in the stores m and f.
HoldsFile(b, m, f, q) ==
    IF b = "memory" THEN q \in DOMAIN m ELSE IsFile(f, FullPathOf[BaseDir][q].path)

\* The stores m and f and the stores m2 and f2 agree outside the canonical
\* path c: the same paths other than c are stored, and exist, meta and load
\* return the same for each of them.
SameElsewhere(b, m, f, m2, f2, c) ==
    \A q \in CanonInputs \ {c} :
        /\ HoldsFile(b, m, f, q) <=> HoldsFile(b, m2, f2, q)
        /\ HoldsFile(b, m, f, q) =>
              /\ ExistOf(b, m, f, q) = ExistOf(b, m2, f2, q)
              /\ MetaOf(b, m, f, q) = MetaOf(b, m2, f2, q)
              /\ \A n \in MaxSizes :
                     \E before \in { LoadOf(b, m, f, q, n) }, after \in { LoadOf(b, m2, f2, q, n) } :
                         before.err = after.err /\ before.data = after.data

\* C38: a save(p, d) or delete(p) that succeeds changes the stored content
\* of p only: every other stored path stays stored with the same results of
\* exist, meta and load, and no other path becomes stored.
C38_OnlyPathChanges ==
    \A p \in RawPaths \ Rejected :
        /\ \A d \in Data :
               \A r \in { SaveOf(backend, mem, fs, p, d) } :
                   r.err = "ok" => SameElsewhere(backend, mem, fs, r.mem, r.fs, CleanOf[p].path)
        /\ \A r \in { DeleteOf(backend, mem, fs, p) } :
               r.err = "ok" => SameElsewhere(backend, mem, fs, r.mem, r.fs, CleanOf[p].path)

\* A delete has succeeded and left a blob stored below the deleted path's
\* directory, and a save that succeeds is possible while a blob is stored.
C38_Witness ==
    /\ last.op = "delete"
    /\ last.err = "ok"
    /\ StoredAt(<<"a", "/", "a">>)
    /\ ~StoredAt(<<"a">>)
    /\ SaveOf(backend, mem, fs, <<"a", "/", "b">>, <<1>>).err = "ok"

-----------------------------------------------------------------------------
(* C39 *)

ReadOps == { "meta", "list", "exist", "load" }

\* C39: a meta, list, exist or load call, whether it succeeds or fails,
\* leaves the stored paths, their contents and the directory tree as they
\* were, so the same read repeated right after it returns the same result.
C39_ReadsChangeNothing ==
    [][last'.op \in ReadOps => mem' = mem /\ fs' = fs /\ backend' = backend]_vars

\* A read has failed and a read has succeeded while blobs are stored.
C39_Witness ==
    /\ last.op = "list"
    /\ last.err # "ok"
    /\ StoredAt(<<"a", "/", "a">>)
    /\ StoredAt(<<"b">>)
    /\ LoadOf(backend, mem, fs, <<"b">>, BigSize).err = "ok"

-----------------------------------------------------------------------------
(* Two goroutines on one LocalDir, one system call at a time. race[c] is     *)
(* the call goroutine c is in: its operation, the system call it makes next  *)
(* (pc), its local variables and, once it has returned, its results. The     *)
(* other fields are history: raced, another call wrote the file since this   *)
(* Load took its size; pruned, another call removed the parent directory     *)
(* since this Save made it; filled, the file another call wrote into the     *)
(* directory since this Delete found it empty; kept, a directory this        *)
(* goroutine found empty was filled before it could remove it.               *)

RacePaths == { <<"a", "/", "a">>, <<"a", "/", "b">> }

RaceData == { <<1>>, <<2, 3>> }

RaceSizes == { Len(d) : d \in RaceData } \cup { BigSize }

Other(c) == CHOOSE d \in Callers : d # c

\* The record of a call that begins, and of a call that returns err.
Begin(c, op) == [NoCaller EXCEPT !.op = op, !.kept = race[c].kept]

Finish(call, err) == [call EXCEPT !.pc = "done", !.err = err]

Idle(c) == race[c].pc \in { "idle", "done" }

InitRace ==
    /\ backend = "localdir"
    /\ mem = NoFiles
    /\ fs = InitFs
    /\ last = NoCall
    /\ cp = NoClean
    /\ walk = NoWalk
    /\ watch = NoWatch
    /\ typeFactoryMap = NoTypes
    /\ bufs = NoBufs
    /\ insts = NoInsts
    /\ maps = NoMaps
    /\ esc = NoEsc
    /\ fullp = NoFull
    /\ race = NoRace

\* Load that reads the file whatever its size.
RaceLoadStatNoLimit(c, filePath, maxSize) ==
    /\ Idle(c)
    /\ \E full \in { FullPathOf[BaseDir][filePath] } :
           \E info \in { OsStat(fs, full.path) } :
               race' = [race EXCEPT ![c] =
                           IF full.err # "ok" THEN Finish(Begin(c, "load"), full.err)
                           ELSE IF info.err # "ok"
                           THEN Finish(Begin(c, "load"),
                                       IF IsNotExist(info.err) THEN "PathDoesntExist" ELSE info.err)
                           ELSE [Begin(c, "load") EXCEPT !.pc = "read", !.path = full.path,
                                                         !.maxSize = maxSize]]
    /\ UNCHANGED <<backend, mem, fs, last, cp, walk, watch, typeFactoryMap, bufs, insts, maps, esc, fullp>>

\* Load up to its size check: getFullPath, os.Stat and the comparison with
\* maxSize.
RaceLoadStat(c, filePath, maxSize) ==
    /\ Idle(c)
    /\ \E full \in { FullPathOf[BaseDir][filePath] } :
           \E info \in { OsStat(fs, full.path) } :
               race' = [race EXCEPT ![c] =
                           IF full.err # "ok" THEN Finish(Begin(c, "load"), full.err)
                           ELSE IF info.err # "ok"
                           THEN Finish(Begin(c, "load"),
                                       IF IsNotExist(info.err) THEN "PathDoesntExist" ELSE info.err)
                           ELSE IF info.size > maxSize
                           THEN [Finish(Begin(c, "load"), "TooLarge") EXCEPT !.maxSize = maxSize]
                           ELSE [Begin(c, "load") EXCEPT !.pc = "read", !.path = full.path,
                                                         !.maxSize = maxSize]]
    /\ UNCHANGED <<backend, mem, fs, last, cp, walk, watch, typeFactoryMap, bufs, insts, maps, esc, fullp>>

\* Load's ioutil.ReadFile and return.
RaceLoadRead(c) ==
    /\ race[c].pc = "read"
    /\ \E rf \in { OsReadFile(fs, race[c].path) } :
           race' = [race EXCEPT ![c] = [Finish(@, rf.err) EXCEPT !.out = rf.data]]
    /\ UNCHANGED <<backend, mem, fs, last, cp, walk, watch, typeFactoryMap, bufs, insts, maps, esc, fullp>>

\* Save up to os.MkdirAll, whose error is dropped.
RaceSaveMkdir(c, filePath, data) ==
    /\ Idle(c)
    /\ \E full \in { FullPathOf[BaseDir][filePath] } :
           IF full.err # "ok"
           THEN /\ race' = [race EXCEPT ![c] = Finish(Begin(c, "save"), full.err)]
                /\ fs' = fs
           ELSE \E made \in { OsMkdirAll(fs, DirOf[full.path]) } :
                    /\ fs' = made.fs
                    /\ race' = [race EXCEPT ![c] =
                                   [Begin(c, "save") EXCEPT !.pc = "write", !.path = full.path,
                                                            !.data = data]]
    /\ UNCHANGED <<backend, mem, last, cp, walk, watch, typeFactoryMap, bufs, insts, maps, esc, fullp>>

\* Save's ioutil.WriteFile and return.
RaceSaveWrite(c) ==
    /\ race[c].pc = "write"
    /\ \E wr \in { OsWriteFile(fs, race[c].path, race[c].data) } :
           /\ fs' = wr.fs
           /\ race' = [d \in Callers |->
                          IF d = c THEN Finish(race[c], wr.err)
                          ELSE IF wr.err = "ok" /\ race[d].pc = "read" /\ race[d].path = race[c].path
                          THEN [race[d] EXCEPT !.raced = TRUE]
                          ELSE IF /\ wr.err = "ok"
                                  /\ race[d].pc = "rmdir"
                                  /\ race[d].parentDir = DirOf[race[c].path]
                          THEN [race[d] EXCEPT !.filled = race[c].path]
                          ELSE race[d]]
    /\ UNCHANGED <<backend, mem, last, cp, walk, watch, typeFactoryMap, bufs, insts, maps, esc, fullp>>

\* Delete up to os.Remove of the file.
RaceDeleteRemove(c, filePath) ==
    /\ Idle(c)
    /\ \E full \in { FullPathOf[BaseDir][filePath] } :
           IF full.err # "ok"
           THEN /\ race' = [race EXCEPT ![c] = Finish(Begin(c, "delete"), full.err)]
                /\ fs' = fs
           ELSE \E rm \in { OsRemove(fs, full.path) } :
                    /\ fs' = rm.fs
                    /\ race' = [race EXCEPT ![c] =
                                   IF rm.err # "ok"
                                   THEN Finish(Begin(c, "delete"),
                                               IF IsNotExist(rm.err) THEN "PathDoesntExist" ELSE rm.err)
                                   ELSE [Begin(c, "delete") EXCEPT !.pc = "walk", !.path = full.path,
                                                                   !.parentDir = full.path]]
    /\ UNCHANGED <<backend, mem, last, cp, walk, watch, typeFactoryMap, bufs, insts, maps, esc, fullp>>

\* One iteration of Delete's loop up to ioutil.ReadDir and the test of its
\* result.
RaceWalkReadDir(c) ==
    /\ race[c].pc = "walk"
    /\ \E parentDir \in { DirOf[race[c].parentDir] } :
           \E rd \in { OsReadDir(fs, parentDir) } :
               race' = [race EXCEPT ![c] =
                           IF race[c].i > WalkCap THEN Finish(@, "InfiniteLoop")
                           ELSE IF EscapesBase[BaseDir][parentDir] \/ parentDir = BaseDir
                           THEN [Finish(@, "ok") EXCEPT !.parentDir = parentDir]
                           ELSE IF rd.err # "ok"
                           THEN [Finish(@, rd.err) EXCEPT !.parentDir = parentDir]
                           ELSE IF rd.entries # {}
                           THEN [Finish(@, "ok") EXCEPT !.parentDir = parentDir]
                           ELSE [@ EXCEPT !.pc = "rmdir", !.parentDir = parentDir]]
    /\ UNCHANGED <<backend, mem, fs, last, cp, walk, watch, typeFactoryMap, bufs, insts, maps, esc, fullp>>

\* The os.Remove of the directory the loop found empty, whose error is
\* dropped, and the loop's increment.
RaceWalkRemove(c) ==
    /\ race[c].pc = "rmdir"
    /\ \E removed \in { OsRemove(fs, race[c].parentDir) } :
           /\ fs' = removed.fs
           /\ race' = [d \in Callers |->
                          IF d = c
                          THEN [race[c] EXCEPT !.pc = "walk", !.i = @ + 1, !.filled = Empty,
                                               !.kept = @ \/ (removed.err # "ok" /\ race[c].filled # Empty)]
                          ELSE IF /\ removed.err = "ok"
                                  /\ race[d].pc = "write"
                                  /\ DirOf[race[d].path] = race[c].parentDir
                          THEN [race[d] EXCEPT !.pruned = TRUE]
                          ELSE race[d]]
    /\ UNCHANGED <<backend, mem, last, cp, walk, watch, typeFactoryMap, bufs, insts, maps, esc, fullp>>

NextRace ==
    \E c \in Callers :
        \/ \E p \in RacePaths, n \in RaceSizes : RaceLoadStat(c, p, n)
        \/ RaceLoadRead(c)
        \/ \E p \in RacePaths, d \in RaceData : RaceSaveMkdir(c, p, d)
        \/ RaceSaveWrite(c)
        \/ \E p \in RacePaths : RaceDeleteRemove(c, p)
        \/ RaceWalkReadDir(c)
        \/ RaceWalkRemove(c)

SpecRace == InitRace /\ [][NextRace]_vars

(* C34 *)

\* C34: a Load that returns more than maxSize bytes without an error was
\* overtaken: another goroutine's Save wrote the file between the Load's size
\* check and its read. A Load that was not overtaken returns at most maxSize
\* bytes.
C34_OversizeOnlyWhenRaced ==
    \A c \in Callers :
        (race[c].op = "load" /\ race[c].pc = "done" /\ race[c].err = "ok"
            /\ Len(race[c].out) > race[c].maxSize)
        => race[c].raced

\* A Load with maxSize 1 has returned two bytes without an error.
C34_Witness ==
    \E c \in Callers :
        /\ race[c].op = "load"
        /\ race[c].pc = "done"
        /\ race[c].err = "ok"
        /\ race[c].maxSize = 1
        /\ race[c].out = <<2, 3>>

(* C35 *)

\* C35: a Save whose parent directory was pruned by another goroutine's
\* Delete after its MkdirAll, and is still missing when it writes, returns an
\* error and stores nothing; and when a Save has written a file into a
\* directory after a Delete's walk found it empty, the walk's removal of that
\* directory leaves the directory and the file as they are.
C35_SaveDeleteRace ==
    [][\A c \in Callers :
        /\ (race[c].pc = "write" /\ race[c].pruned /\ ~IsDir(fs, DirOf[race[c].path])
                /\ race'[c].pc = "done")
           => (race'[c].err # "ok" /\ ~IsFile(fs', race[c].path) /\ fs' = fs)
        /\ (race[c].pc = "rmdir" /\ race[c].filled # Empty /\ IsFile(fs, race[c].filled)
                /\ race'[c].pc = "walk")
           => (/\ IsDir(fs', race[c].parentDir)
               /\ IsFile(fs', race[c].filled)
               /\ fs'.files[race[c].filled] = fs.files[race[c].filled])]_vars

\* A Save has failed because its parent directory was pruned under it, and
\* the other goroutine has earlier failed to remove a directory that was
\* filled under its walk.
C35_Witness ==
    \E c \in Callers :
        /\ race[c].op = "save"
        /\ race[c].pc = "done"
        /\ race[c].pruned
        /\ race[c].err = "ENOENT"
        /\ race[Other(c)].kept

====
